---- MODULE Spec2Model ----
(***************************************************************************)
(* Conversation routing and approval pipeline of the LINE assistant        *)
(* (src/lambda/lambda_function.py and the services it drives).             *)
(*                                                                         *)
(* Every webhook invocation is one atomic action.  Texts are sequences of  *)
(* tokens; Japanese literals of the source are written in ASCII:           *)
(*   "irai"  = the order keyword (is_order_request),                       *)
(*   "@ai", "@AI", "@irai", "fw@ai", "fw@AI", "fw@irai" = TRIGGER_KEYWORDS *)
(*   (half- and full-width forms), "[file]" = the placeholder text the     *)
(*   LINE handler gives to an attachment message.                          *)
(*                                                                         *)
(* The services under src/ are an earlier revision than their caller:      *)
(* lambda_function.py passes mention_user_id / order_info to               *)
(* save_pending_message and push_to_group, and calls get_message_by_id,    *)
(* reopen_message and is_auto_send_time.  The keyword arguments are taken  *)
(* as accepted; the three missing methods are modelled from the            *)
(* specification and from the way the caller uses them.                    *)
(***************************************************************************)
EXTENDS Integers, Sequences, FiniteSets, TLC

VARIABLES
    approval_group_id,        \* os.environ APPROVAL_GROUP_ID ("" = pipeline disabled)
    ENABLE_DELAYED_RESPONSE,  \* os.environ ENABLE_DELAYED_RESPONSE
    pending,                  \* table ai_secretary_pending_messages, pending_id = index
    revisions,                \* table ai_secretary_revision_history
    unprocessed,              \* table ai_secretary_unprocessed_messages, per group, by created_at
    contacts,                 \* table ai_secretary_last_contact
    clients,                  \* table ai_secretary_clients
    orders,                   \* table ai_secretary_orders, by created_at
    tasks,                    \* SQS file-processor queue
    reopened,                 \* per pending_id: reopen_message has succeeded on the item
    registrations,            \* the records save_registration_for_cancel keeps, per conversation
    delayed,                  \* DelayedResponseService's rows, by message_id
    procs,                    \* invocations in flight: their position and what they have read
    hist,                     \* everything delivered or replayed so far, in order
    last,                     \* the invocation handled last and what it decided
    out                       \* the messages the last invocation emitted

vars == <<approval_group_id, ENABLE_DELAYED_RESPONSE, pending, revisions, unprocessed,
          contacts, clients, orders, tasks, reopened, registrations, delayed, procs, hist,
          last, out>>

----------------------------------------------------------------------------
(* Bounds of the model *)
MaxPending == 1
MaxBuf == 2
MaxOrders == 2
MaxTasks == 1
MaxRevisions == 1
MaxDeliveries == 2
MaxDelayed == 1
MaxBatch == 2
MaxAddenda == 2

Ids == 1..(MaxPending + 1)

MessageIds == 1..MaxDelayed

NoDelayed == [status |-> "none", queued |-> FALSE, target_id |-> "", response_text |-> <<>>]

(* An invocation in flight: where it stands (pc), what it was called for   *)
(* (op, id) and what it has read so far (snap)                             *)
Slots == {1, 2}

Idle == [pc |-> "idle", op |-> "none", id |-> 0, snap |-> <<>>]

(* the ids an operator names: those of the stored items and one unknown id *)
KnownIds == 1..(Len(pending) + 1)

(* Conversations and senders *)
ApprovalGroup == "ga"
CustomerGroups == {"g1"}
ADMIN_USER_ID == "adm"
Users == {"u1", ADMIN_USER_ID}

user_name(user_id) == IF user_id = "u1" THEN "Alice" ELSE IF user_id = "u2" THEN "Bob" ELSE "Boss"

(* Texts *)
TRIGGER_KEYWORDS == {"@ai", "@AI", "@irai", "fw@ai", "fw@AI", "fw@irai"}
ORDER_KEYWORDS == {"onegai", "retouch", "kirinuki", "kakou", "irai", "gousei"}
CompanyTag == "{company:X}"
FilePlaceholder == "[file]"
DraftOutputs == {"d1"}
RevisionOutputs == {"r1"}
EditTexts == {"e1"}
Instructions == {"politer"}

RECURSIVE DropTokens(_, _)
DropTokens(s, drop) ==
    IF s = <<>> THEN <<>>
    ELSE (IF Head(s) \in drop THEN <<>> ELSE <<Head(s)>>) \o DropTokens(Tail(s), drop)

Range(s) == {s[i] : i \in DOMAIN s}

has_trigger_keyword(message_text) == \E keyword \in TRIGGER_KEYWORDS : keyword \in Range(message_text)

remove_trigger_keyword(message_text) == DropTokens(message_text, TRIGGER_KEYWORDS)

is_order_request(message) == \E keyword \in ORDER_KEYWORDS : keyword \in Range(message)

TokLen(t) ==
    CASE t = FilePlaceholder -> 19
      [] t = "irai" -> 2
      [] t = "fw@irai" -> 3
      [] t = "fw@ai" -> 3
      [] t = "deshita" -> 3
      [] t = "\n" -> 0
      [] OTHER -> Len(t)

RECURSIVE SumLen(_)
SumLen(s) == IF s = <<>> THEN 0 ELSE TokLen(Head(s)) + SumLen(Tail(s))

(* len(text.strip()): the tokens, and one separator between neighbours *)
CharLen(s) == IF s = <<>> THEN 0 ELSE SumLen(s) + (Len(DropTokens(s, {"\n"})) - 1)

----------------------------------------------------------------------------
(* utils/parsers.py.  The regular expressions search the text for a         *)
(* substring, so a token is classified by what it contains:                *)
(*   "12/4" a date, "2/30" a date-like token that is no calendar date,     *)
(*   "http://x" a URL, "http://x/12/4" a URL whose path holds digits/digits,*)
(*   "deshita" a correction keyword, "0000000a".. order id prefixes.       *)
UrlTokens == {"http://x", "http://y", "http://x/12/4"}
DateLikeTokens == {"12/4", "2/30", "http://x/12/4"}
CorrectionKeywords == {"deshita"}
NoDeadline == "none"

extract_urls(text) == DropTokens(text, Range(text) \ UrlTokens)

(* text_without_urls of lambda_function.py 950-952 *)
RemoveUrls(text) == DropTokens(text, UrlTokens)

(* datetime(year, month, day, 18, 0) of the first date match; ValueError for 2/30 *)
ParseDate(t) ==
    CASE t = "12/4" -> "12-04 18:00"
      [] t = "http://x/12/4" -> "12-04 18:00"
      [] OTHER -> NoDeadline

extract_deadline(text) ==
    LET found == {i \in DOMAIN text : text[i] \in DateLikeTokens}
    IN  IF found = {} THEN NoDeadline
        ELSE ParseDate(text[CHOOSE i \in found : \A j \in found : i <= j])

is_deadline_correction(text) ==
    LET has_date == \E t \in DateLikeTokens : t \in Range(text)
        has_correction == \E t \in CorrectionKeywords : t \in Range(text)
        is_short_date_only == has_date /\ CharLen(text) <= 50
    IN  has_date /\ (has_correction \/ is_short_date_only)

(* order['order_id'][:8] of the order stored at position i *)
OrderIdPrefix(i) == "0000000" \o <<"a", "b", "c", "d">>[i]

OrderIdTokens == {"0000000a", "0000000b", "0000000c", "0000000d", "00000009"}

(* the first word of eight hexadecimal digits, "" for None *)
extract_order_id_from_message(text) ==
    LET found == {i \in DOMAIN text : text[i] \in OrderIdTokens}
    IN  IF found = {} THEN "" ELSE text[CHOOSE i \in found : \A j \in found : i <= j]

(* f"{user_name}: {text}" *)
RenderEntry(msg) == <<msg.user_name \o ":">> \o msg.message_text

RECURSIVE JoinLines(_)
JoinLines(parts) ==
    IF parts = <<>> THEN <<>>
    ELSE IF Len(parts) = 1 THEN Head(parts)
    ELSE Head(parts) \o <<"\n">> \o JoinLines(Tail(parts))

RECURSIVE RenderAll(_)
RenderAll(messages) ==
    IF messages = <<>> THEN <<>>
    ELSE <<RenderEntry(Head(messages))>> \o RenderAll(Tail(messages))

(* Faulty variant: the trigger message is appended as it came *)
combine_messages_keep_trigger(messages, trigger_message) ==
    JoinLines(RenderAll(messages) \o <<trigger_message>>)

combine_messages(messages, trigger_message) ==
    LET cleaned_trigger == remove_trigger_keyword(trigger_message)
        combined_parts == RenderAll(messages) \o
                          (IF cleaned_trigger # <<>> THEN <<cleaned_trigger>> ELSE <<>>)
    IN  JoinLines(combined_parts)

----------------------------------------------------------------------------
(* Inbound messages: IncomingMessage of handlers/base_handler.py.  A LINE   *)
(* event is either a text message or one attachment with the placeholder   *)
(* text (handlers/line_handler.py).                                        *)
InputTexts ==
    { <<"hi">>, <<"irai">>, <<"@ai">>, <<"@ai", "hi">>, <<"irai", "fw@irai">>,
      <<CompanyTag>>, <<"@ai", CompanyTag>> }

TextMessages ==
    [group_id : {"", ApprovalGroup} \cup CustomerGroups, user_id : Users,
     message_text : InputTexts, attachments : {0}]

FileMessages ==
    [group_id : {""} \cup CustomerGroups, user_id : {"u1"},
     message_text : {<<FilePlaceholder>>}, attachments : {1}]

Messages == {m \in TextMessages \cup FileMessages : m.group_id = "" => m.user_id = "u1"}

Hours == {3, 4, 13}

(* ApprovalService.is_approval_enabled / is_approval_group *)
is_approval_enabled == approval_group_id # ""

is_approval_group(group_id) == group_id = approval_group_id

(* The auto-send window of send_response's docstring: 4:00-13:00 JST *)
AutoSendFrom == 4
AutoSendUntil == 13

is_auto_send_time(hour) == hour >= AutoSendFrom /\ hour < AutoSendUntil

target_id_of(m) == IF m.group_id # "" THEN m.group_id ELSE m.user_id

contact_id_of(group_id, user_id) == IF group_id # "" THEN group_id ELSE "user_" \o user_id

ContactIds == CustomerGroups \cup {ApprovalGroup, "user_u1"}

ClientKeys == CustomerGroups \cup {ApprovalGroup, "u1", "user_u1"}

NoClient == [status |-> "none", company_name |-> <<>>, suggested_company |-> <<>>]

(* The record the administrator's registration leaves for a later          *)
(* "touroku-cancel <id>" (lambda_function.py 677-680).  The id is random;  *)
(* the model names a record by the conversation it was written for and     *)
(* keeps the latest record of a conversation.                              *)
NoRegistration == [status |-> "none", company_name |-> <<>>]

ActiveClient(company_name) ==
    [status |-> "active", company_name |-> company_name, suggested_company |-> <<>>]

(* ClientService.get_client_by_group_id: a row without company_name is no client *)
get_client_by_group_id(group_id) ==
    IF clients[group_id].status = "active" THEN clients[group_id] ELSE NoClient

get_client_by_user_id(user_id) == get_client_by_group_id("user_" \o user_id)

(* ApprovalService.save_registration_for_cancel (called at 680) *)
save_registration_for_cancel(group_id, company_name) ==
    [registrations EXCEPT ![group_id] = [status |-> "saved", company_name |-> company_name]]

register_client(group_id, company_name) ==
    [clients EXCEPT ![group_id] = ActiveClient(company_name)]

set_pending_registration(group_id, suggested_company) ==
    [clients EXCEPT ![group_id] = [status |-> "pending_registration", company_name |-> <<>>,
                                   suggested_company |-> suggested_company]]

is_pending_registration(group_id) == clients[group_id].status = "pending_registration"

get_all_company_names ==
    {clients[k].company_name : k \in {k \in ClientKeys : clients[k].status = "active"
                                                          /\ clients[k].company_name # <<>>}}

IsInfix(a, b) ==
    \E i \in 0..(Len(b) - Len(a)) : \A j \in 1..Len(a) : b[i + j] = a[j]

(* ClientService.find_similar_company: the candidates; the code returns the  *)
(* first match of list(set(...)), whose order is arbitrary                  *)
find_similar_company(input_text) ==
    {company \in get_all_company_names : IsInfix(input_text, company) \/ IsInfix(company, input_text)}

(* Events emitted by an invocation *)
Ev(ch, to, id, text, ok) == [ch |-> ch, to |-> to, id |-> id, text |-> text, ok |-> ok]

Reply(m, text) == Ev("reply", target_id_of(m), 0, text, TRUE)

(* The record of the invocation handled last: its input, what it decided,   *)
(* and the tables as they were before it ran (old and the n_ fields)       *)
LastDefault ==
    [op |-> "init", id |-> 0, pre |-> "none", group_id |-> "", user_id |-> "",
     text |-> <<>>, attachments |-> 0, kw |-> FALSE, awaiting |-> FALSE,
     has_trigger |-> FALSE, is_reply_mode |-> FALSE, auto |-> FALSE,
     flow |-> "none", via |-> "none", user_message |-> <<>>, arg |-> <<>>, ok |-> TRUE,
     old |-> unprocessed, n_pending |-> Len(pending), n_orders |-> Len(orders),
     n_tasks |-> Len(tasks), n_revisions |-> Len(revisions)]

InboundLast(m) ==
    [LastDefault EXCEPT !.op = "process_message", !.group_id = m.group_id,
                        !.user_id = m.user_id, !.text = m.message_text,
                        !.attachments = m.attachments,
                        !.kw = \E i \in DOMAIN m.message_text :
                                   m.message_text[i] \in TRIGGER_KEYWORDS,
                        !.awaiting = m.group_id \in DOMAIN contacts
                                     /\ contacts[m.group_id].awaiting]

ClientsWith(reg) == [k \in ClientKeys |-> IF k \in reg THEN ActiveClient(<<"acme">>) ELSE NoClient]

RegisteredClients == { ClientsWith({"g1", "user_u1"}) }

InitialClients == { ClientsWith(reg) : reg \in {{}, {"g1", "user_u1"}} }

(* empty tables; the configuration and the registered clients are given *)
TablesWith(registered, configs) ==
    /\ \E config \in configs : /\ approval_group_id = config[1]
                                /\ ENABLE_DELAYED_RESPONSE = config[2]
    /\ pending = <<>>
    /\ revisions = <<>>
    /\ unprocessed = [g \in CustomerGroups |-> <<>>]
    /\ contacts = [c \in ContactIds |-> [today |-> FALSE, awaiting |-> FALSE]]
    /\ clients \in registered
    /\ orders = <<>>
    /\ tasks = <<>>
    /\ reopened = [i \in Ids |-> FALSE]
    /\ registrations = [k \in ClientKeys |-> NoRegistration]
    /\ delayed = [id \in MessageIds |-> NoDelayed]
    /\ procs = [slot \in Slots |-> Idle]
    /\ hist = <<>>
    /\ out = <<>>

InitWith(registered, configs) ==
    /\ TablesWith(registered, configs)
    /\ last = LastDefault

Configs == {"", ApprovalGroup} \X BOOLEAN

Init == InitWith(RegisteredClients, {<<ApprovalGroup, FALSE>>})

InitDraft == InitWith(RegisteredClients, Configs)

InitRouter == InitWith(RegisteredClients, {<<ApprovalGroup, FALSE>>, <<"", FALSE>>})

InitOrders == InitWith(RegisteredClients, {<<"", FALSE>>})

InitWorker == InitWith(RegisteredClients, {<<ApprovalGroup, FALSE>>, <<"", FALSE>>})

(* no conversation of the customer is registered; the organization acme is *)
(* known from another conversation or not at all                           *)
InitRegistration ==
    InitWith({ClientsWith({}), ClientsWith({ApprovalGroup})}, {<<"", FALSE>>})

----------------------------------------------------------------------------
(* process_message, part 1: administrator command and trigger filter *)

HasCompanyTag(text) == CompanyTag \in Range(text)

IsAdminCompanyCommand(m) ==
    m.user_id = ADMIN_USER_ID /\ m.group_id # "" /\ HasCompanyTag(m.message_text)

(* lambda_function.py 662-697: {company:...} from the administrator in a group *)
AdminCompanyCommand(m) ==
    /\ clients' = register_client(m.group_id, <<"X">>)
    /\ registrations' = save_registration_for_cancel(m.group_id, <<"X">>)
    /\ out' = << Ev("push", approval_group_id, 0, <<"company_registered">>, TRUE),
                 Reply(m, <<"company_registered">>) >>
    /\ last' = [InboundLast(m) EXCEPT !.flow = "admin_company", !.via = "reply",
                                      !.user_message = m.message_text]
    /\ UNCHANGED <<approval_group_id, ENABLE_DELAYED_RESPONSE, delayed, pending, revisions, unprocessed,
                   contacts, orders, tasks, reopened>>

(* Faulty variant: the awaiting-reply window never closes *)
is_awaiting_reply_always(group_id, user_id) == TRUE

(* GreetingService.is_awaiting_reply: the contact row is keyed by the group *)
is_awaiting_reply(group_id, user_id) == contacts[contact_id_of(group_id, user_id)].awaiting

get_unprocessed_messages(group_id) == unprocessed[group_id]

FilterResult(save, has_trigger, is_reply_mode, user_message, drain) ==
    [save |-> save, has_trigger |-> has_trigger, is_reply_mode |-> is_reply_mode,
     user_message |-> user_message, drain |-> drain]

(* lambda_function.py 699-750 *)
TriggerFilter(m, is_for_ai) ==
    IF m.group_id # "" /\ ~is_approval_group(m.group_id)
    THEN LET has_trigger == has_trigger_keyword(m.message_text)
             awaiting == is_awaiting_reply(m.group_id, m.user_id)
             unprocessed_messages == get_unprocessed_messages(m.group_id)
         IN  IF ~has_trigger /\ ~awaiting
             THEN FilterResult(TRUE, FALSE, FALSE, m.message_text, FALSE)
             ELSE IF awaiting /\ ~has_trigger
             THEN IF ~is_for_ai
                  THEN FilterResult(TRUE, FALSE, FALSE, m.message_text, FALSE)
                  ELSE FilterResult(FALSE, TRUE, TRUE, m.message_text, FALSE)
             ELSE IF unprocessed_messages # <<>>
                  THEN FilterResult(FALSE, TRUE, FALSE,
                                    combine_messages(unprocessed_messages, m.message_text), TRUE)
                  ELSE FilterResult(FALSE, TRUE, FALSE,
                                    remove_trigger_keyword(m.message_text), FALSE)
    ELSE FilterResult(FALSE, FALSE, FALSE, m.message_text, FALSE)

(* UnprocessedMessageService.save_unprocessed_message and the return at 716/730 *)
SaveUnprocessed(m) ==
    /\ Len(unprocessed[m.group_id]) < MaxBuf
    /\ unprocessed' = [unprocessed EXCEPT ![m.group_id] =
                          Append(@, [user_name |-> user_name(m.user_id),
                                     message_text |-> m.message_text])]
    /\ out' = <<>>
    /\ last' = [InboundLast(m) EXCEPT !.flow = "buffered", !.user_message = m.message_text]
    /\ UNCHANGED <<approval_group_id, ENABLE_DELAYED_RESPONSE, registrations, delayed, pending, revisions, contacts,
                   clients, orders, tasks, reopened>>

(* delete_unprocessed_messages after a drain (747) *)
BufferAfter(m, f) ==
    IF f.drain THEN [unprocessed EXCEPT ![m.group_id] = <<>>] ELSE unprocessed

----------------------------------------------------------------------------
(* process_message, part 2: client registration dialogue *)

Affirmatives == {<<"yes">>}
Negatives == {<<"no">>}

client_of(m) ==
    IF m.group_id # "" THEN get_client_by_group_id(m.group_id) ELSE get_client_by_user_id(m.user_id)

RegOutcome(new_clients, text) == [clients |-> new_clients, text |-> text]

(* handle_company_registration (584-619): the possible results; {} stands for None *)
handle_company_registration(target_id, user_message, suggested_company) ==
    IF suggested_company # <<>> /\ user_message \in Affirmatives
    THEN {RegOutcome(register_client(target_id, suggested_company), <<"registered">>)}
    ELSE IF CharLen(user_message) > 0 /\ CharLen(user_message) <= 50
    THEN LET candidates == find_similar_company(user_message)
             plain == IF user_message \in Negatives
                      THEN RegOutcome(set_pending_registration(target_id, <<>>), <<"ask_company_name">>)
                      ELSE RegOutcome(register_client(target_id, user_message), <<"registered">>)
         IN  {RegOutcome(set_pending_registration(target_id, similar), <<"confirm_existing">>) :
                  similar \in candidates \ {user_message}}
             \cup (IF candidates = {} \/ user_message \in candidates THEN {plain} ELSE {})
    ELSE {}

ProcessedLast(m, f, flow, via, id, auto) ==
    [InboundLast(m) EXCEPT !.has_trigger = f.has_trigger, !.is_reply_mode = f.is_reply_mode,
                           !.flow = flow, !.via = via, !.id = id, !.auto = auto,
                           !.user_message = f.user_message]

(* 806-820: the message is the answer of the registration dialogue *)
RegistrationAnswer(m, f, r) ==
    /\ clients' = r.clients
    /\ unprocessed' = BufferAfter(m, f)
    /\ out' = <<Reply(m, r.text)>>
    /\ last' = ProcessedLast(m, f, "registration", "reply", 0, FALSE)
    /\ UNCHANGED <<approval_group_id, ENABLE_DELAYED_RESPONSE, registrations, delayed, pending, revisions, contacts,
                   orders, tasks, reopened>>

(* 827-845: unregistered conversation, start the dialogue *)
RegistrationPrompt(m, f, similar_company) ==
    /\ clients' = set_pending_registration(target_id_of(m), similar_company)
    /\ unprocessed' = BufferAfter(m, f)
    /\ out' = <<Reply(m, <<"register_prompt">>)>>
    /\ last' = ProcessedLast(m, f, "register_prompt", "reply", 0, FALSE)
    /\ UNCHANGED <<approval_group_id, ENABLE_DELAYED_RESPONSE, registrations, delayed, pending, revisions, contacts,
                   orders, tasks, reopened>>

----------------------------------------------------------------------------
(* process_message, part 3: flows, greeting, send_response *)

(* The age of an order against the cutoffs the router uses: 0 = at most 30 *)
(* minutes, 1 = at most 60 minutes, 2 = at most 24 hours, 3 = older        *)
Within30 == 0
Within60 == 1
Within1440 == 2
Older == 3

(* OrderService.save_order and the update_order that stores drive_folder_id *)
NewOrder(m, folder_ok) ==
    [group_id |-> IF m.group_id # "" THEN m.group_id ELSE "unknown",
     customer_id |-> m.user_id, created_at |-> Len(orders) + 1, age |-> Within30,
     folder |-> folder_ok, notes |-> 0, deadline |-> NoDeadline]

(* the scan filter of get_recent_order *)
OrdersOf(group_id, user_id, max_age) ==
    {i \in DOMAIN orders :
        /\ orders[i].age <= max_age
        /\ IF group_id # "" THEN orders[i].group_id = group_id
                            ELSE orders[i].customer_id = user_id}

(* OrderService.get_recent_order(minutes=30): latest matching order, 0 for None *)
get_recent_order(group_id, user_id) ==
    LET found == OrdersOf(group_id, user_id, Within30)
    IN  IF found = {} THEN 0
        ELSE CHOOSE i \in found : \A j \in found : orders[j].created_at <= orders[i].created_at

(* OrderService.get_recent_orders(minutes=60 / 1440): all matching orders *)
get_recent_orders(group_id, user_id, max_age) == OrdersOf(group_id, user_id, max_age)

(* OrderService.update_order(order_id, {'deadline': new_deadline}, created_at) *)
update_order_deadline(order_id, new_deadline) ==
    [orders EXCEPT ![order_id].deadline = new_deadline]

(* OrderService.add_attachment_to_order *)
add_attachment_to_order(order_id) == [orders EXCEPT ![order_id].notes = @ + 1]

(* QueueService.queue_attachment_processing / queue_url_processing *)
EnrichmentTask(task_type, order_id, order_created_at, folder, items, m) ==
    [task_type |-> task_type, order_id |-> order_id, order_created_at |-> order_created_at,
     folder |-> folder, items |-> items, target_id |-> target_id_of(m),
     is_group |-> m.group_id # "", delivered |-> 0, noticed |-> FALSE]

(* ApprovalService.save_pending_message: the stored item *)
save_pending_message(target_id, target_type, response_text) ==
    [status |-> "pending", response_text |-> response_text,
     target_id |-> target_id, target_type |-> target_type]

(* DelayedResponseService (23-110).  A row is keyed by the id the platform  *)
(* gave the inbound message; status none = no row.  queued = the row was   *)
(* written by queue_delayed_response and its SQS message is on its way.    *)
queue_delayed_response(message_id, target_id, response_text) ==
    [delayed EXCEPT ![message_id] = [status |-> "pending", queued |-> TRUE,
                                     target_id |-> target_id,
                                     response_text |-> response_text]]

(* update_item without a condition: creates the row if there is none *)
cancel_response(message_id) == [delayed EXCEPT ![message_id].status = "cancelled"]

(* Faulty variant: the row is returned whatever its status *)
get_pending_response_any_status(message_id) == delayed[message_id].queued

get_pending_response(message_id) == delayed[message_id].status = "pending"

mark_as_sent(message_id) == [delayed EXCEPT ![message_id].status = "sent"]

(* the ids of the inbound messages that have not been answered through the *)
(* delayed-reply table; the next such message carries the least of them    *)
Unanswered == {id \in MessageIds : ~delayed[id].queued}

NextMessageId == CHOOSE id \in Unanswered : \A other \in Unanswered : id <= other

(* Faulty variants of send_response: without the approval gate, and with a *)
(* bypass that does not look at the clock                                  *)
send_response_via_ungated(has_trigger, hour) ==
    IF ENABLE_DELAYED_RESPONSE THEN "delayed" ELSE "direct"

send_response_via_any_hour(has_trigger, hour) ==
    IF is_approval_enabled
    THEN IF has_trigger THEN "bypass" ELSE "pending"
    ELSE IF ENABLE_DELAYED_RESPONSE THEN "delayed" ELSE "direct"

send_response_via_delay_first(has_trigger, hour) ==
    IF ENABLE_DELAYED_RESPONSE THEN "delayed"
    ELSE IF is_approval_enabled
         THEN IF has_trigger /\ is_auto_send_time(hour) THEN "bypass" ELSE "pending"
         ELSE "direct"

(* send_response (1218-1291): which way the drafted reply leaves *)
send_response_via(has_trigger, hour) ==
    IF is_approval_enabled
    THEN IF has_trigger /\ is_auto_send_time(hour) THEN "bypass" ELSE "pending"
    ELSE IF ENABLE_DELAYED_RESPONSE THEN "delayed" ELSE "direct"

(* 940-1052: which of the flows applies *)
FlowGiven(m, user_message, is_reply_mode) ==
    LET has_attachments == m.attachments > 0
        order_request == is_order_request(user_message)
        urls == extract_urls(user_message)
        is_attachment_only == has_attachments /\ CharLen(user_message) <= 20 /\ ~order_request
        is_url_only == urls # <<>> /\ CharLen(RemoveUrls(user_message)) <= 20 /\ ~order_request
        recent_order == IF is_attachment_only \/ is_url_only
                        THEN get_recent_order(m.group_id, m.user_id) ELSE 0
    IN  IF recent_order # 0 /\ is_attachment_only THEN "addendum_attachment"
        ELSE IF recent_order # 0 /\ is_url_only THEN "addendum_url"
        ELSE IF (order_request \/ has_attachments) /\ ~is_reply_mode THEN "new_order"
        ELSE "chat"

(* Faulty variant: the new-order branch does not look at is_reply_mode *)
FlowOf_ignoring_reply_mode(m, f) == FlowGiven(m, f.user_message, FALSE)

FlowOf(m, f) == FlowGiven(m, f.user_message, f.is_reply_mode)

(* 940-1187 with the answers of the clock, the AI endpoint and the file store *)
DraftWith(m, f, hour, ai_text, folder_ok) ==
    LET flow == FlowOf(m, f)
        has_attachments == m.attachments > 0
        recent_order == get_recent_order(m.group_id, m.user_id)
        contact_id == contact_id_of(m.group_id, m.user_id)
        should_greet == ~contacts[contact_id].today
        urls == extract_urls(f.user_message)
        body == CASE flow = "addendum_attachment" -> <<"data_received">>
                  [] flow = "addendum_url" -> <<"link_received">>
                  [] flow = "new_order" -> <<ai_text, "order_footer">>
                  [] OTHER -> <<ai_text>>
        ai_response == IF should_greet THEN <<"greeting">> \o body ELSE body
        via == send_response_via(f.has_trigger, hour)
        new_order_id == Len(orders) + 1
        queued == CASE flow = "addendum_attachment" ->
                         <<EnrichmentTask("process_attachments", recent_order,
                                          orders[recent_order].created_at,
                                          orders[recent_order].folder, <<"file">>, m)>>
                    [] flow = "addendum_url" ->
                         <<EnrichmentTask("process_urls", recent_order,
                                          orders[recent_order].created_at,
                                          orders[recent_order].folder, urls, m)>>
                    [] flow = "new_order" /\ folder_ok ->
                         (IF urls # <<>>
                          THEN <<EnrichmentTask("process_urls", new_order_id, new_order_id,
                                                TRUE, urls, m)>>
                          ELSE <<>>) \o
                         (IF has_attachments
                          THEN <<EnrichmentTask("process_attachments", new_order_id,
                                                new_order_id, TRUE, <<"file">>, m)>>
                          ELSE <<>>)
                    [] OTHER -> <<>>
        pending_id == IF via = "pending" THEN Len(pending) + 1 ELSE 0
    IN  /\ flow = "new_order" => Len(orders) < MaxOrders
        /\ Len(tasks) + Len(queued) <= MaxTasks
        /\ via = "pending" => Len(pending) < MaxPending
        /\ via = "delayed" => Unanswered # {}
        /\ delayed' = IF via = "delayed"
                      THEN queue_delayed_response(NextMessageId, target_id_of(m), ai_response)
                      ELSE delayed
        /\ orders' = CASE flow \in {"addendum_attachment", "addendum_url"} ->
                            add_attachment_to_order(recent_order)
                       [] flow = "new_order" -> Append(orders, NewOrder(m, folder_ok))
                       [] OTHER -> orders
        /\ tasks' = tasks \o queued
        /\ contacts' = [contacts EXCEPT ![contact_id] = [today |-> TRUE, awaiting |-> TRUE]]
        /\ pending' = IF via = "pending"
                      THEN Append(pending,
                                  save_pending_message(target_id_of(m),
                                                       IF m.group_id # "" THEN "group" ELSE "user",
                                                       ai_response))
                      ELSE pending
        /\ out' = CASE via = "pending" -> <<Ev("slack_request", "slack", pending_id, ai_response, TRUE)>>
                    [] via = "delayed" -> <<Ev("queue_delayed", target_id_of(m), 0, ai_response, TRUE)>>
                    [] OTHER -> <<Reply(m, ai_response)>>
        /\ unprocessed' = BufferAfter(m, f)
        /\ last' = ProcessedLast(m, f, flow, via, pending_id,
                                 hour >= AutoSendFrom /\ hour < AutoSendUntil)
        /\ UNCHANGED <<approval_group_id, ENABLE_DELAYED_RESPONSE, registrations, revisions, clients,
                       reopened>>

(* send_response looks at the clock only when the pipeline is enabled and has_trigger is set *)
HoursFor(f) == IF is_approval_enabled /\ f.has_trigger THEN Hours ELSE {AutoSendUntil}

(* DriveService.create_order_folder is called by the new-order flow only *)
FolderResults(m, f) == IF FlowOf(m, f) = "new_order" THEN BOOLEAN ELSE {TRUE}

Draft(m, f) ==
    \E hour \in HoursFor(f), ai_text \in DraftOutputs, folder_ok \in FolderResults(m, f) :
        DraftWith(m, f, hour, ai_text, folder_ok)

(* 847-938: what the deadline-correction block decides *)
DeadlineTarget(m, f) ==
    LET specified_order_id == extract_order_id_from_message(f.user_message)
        recent_orders == get_recent_orders(m.group_id, m.user_id,
                                           IF specified_order_id # "" THEN Within1440
                                           ELSE Within60)
        matching == IF specified_order_id # ""
                    THEN {i \in recent_orders : OrderIdPrefix(i) = specified_order_id}
                    ELSE recent_orders
    IN  [specified |-> specified_order_id # "", candidates |-> matching]

(* Faulty variant: of several candidates the first is taken *)
DeadlineCase_first_of_many(m, f) == IF ~is_deadline_correction(f.user_message) \/ extract_deadline(f.user_message) = NoDeadline THEN "none" ELSE IF DeadlineTarget(m, f).specified THEN (IF DeadlineTarget(m, f).candidates # {} THEN "update" ELSE "not_found") ELSE IF DeadlineTarget(m, f).candidates = {} THEN "none" ELSE "update"

(* Faulty variant: an unreadable date does not stop the block *)
DeadlineCase_without_date_guard(m, f) == IF ~is_deadline_correction(f.user_message) THEN "none" ELSE IF DeadlineTarget(m, f).specified THEN (IF DeadlineTarget(m, f).candidates # {} THEN "update" ELSE "not_found") ELSE IF DeadlineTarget(m, f).candidates = {} THEN "none" ELSE IF Cardinality(DeadlineTarget(m, f).candidates) = 1 THEN "update" ELSE "ambiguous"

DeadlineCase(m, f) ==
    LET t == DeadlineTarget(m, f)
    IN  IF ~is_deadline_correction(f.user_message) \/ extract_deadline(f.user_message) = NoDeadline
        THEN "none"
        ELSE IF t.specified
        THEN IF t.candidates # {} THEN "update" ELSE "not_found"
        ELSE IF t.candidates = {} THEN "none"
        ELSE IF Cardinality(t.candidates) = 1 THEN "update"
        ELSE "ambiguous"

RECURSIVE PrefixLines(_, _)
PrefixLines(i, candidates) ==
    IF i > Len(orders) THEN <<>>
    ELSE (IF i \in candidates THEN <<OrderIdPrefix(i)>> ELSE <<>>) \o PrefixLines(i + 1, candidates)

(* the replies of the block; handler.reply answers directly *)
DeadlineCorrection(m, f) ==
    LET t == DeadlineTarget(m, f)
        kind == DeadlineCase(m, f)
        new_deadline == extract_deadline(f.user_message)
        target_order == IF kind = "update"
                        THEN CHOOSE i \in t.candidates : \A j \in t.candidates : i <= j
                        ELSE 0
        text == CASE kind = "update" -> <<"deadline_updated", OrderIdPrefix(target_order), new_deadline>>
                  [] kind = "not_found" -> <<"order_not_found">>
                  [] OTHER -> <<"which_order">> \o PrefixLines(1, t.candidates)
    IN  /\ orders' = IF kind = "update" THEN update_order_deadline(target_order, new_deadline)
                     ELSE orders
        /\ unprocessed' = BufferAfter(m, f)
        /\ out' = <<Reply(m, text)>>
        /\ last' = ProcessedLast(m, f, "deadline_" \o kind, "reply", target_order, FALSE)
        /\ UNCHANGED <<approval_group_id, ENABLE_DELAYED_RESPONSE, registrations, delayed, pending, revisions, contacts,
                       clients, tasks, reopened>>

(* 847-1187 for a registered conversation *)
Classify(m, f) ==
    IF DeadlineCase(m, f) # "none" THEN DeadlineCorrection(m, f) ELSE Draft(m, f)

NameCandidates(user_id) ==
    LET found == find_similar_company(<<user_name(user_id)>>)
    IN  IF found = {} THEN {<<>>} ELSE found

(* Faulty variant: the registration state is not looked at *)
Route_unregistered_drafts(m, f) == Draft(m, f)

(* 796-845 and on *)
Route(m, f) ==
    LET target_id == target_id_of(m)
        answers == IF is_pending_registration(target_id)
                   THEN handle_company_registration(target_id, f.user_message,
                                                    clients[target_id].suggested_company)
                   ELSE {}
    IN  IF answers # {}
        THEN \E r \in answers : RegistrationAnswer(m, f, r)
        ELSE IF client_of(m).status = "active"
        THEN Classify(m, f)
        ELSE \E similar_company \in NameCandidates(m.user_id) :
                 RegistrationPrompt(m, f, similar_company)

(* Faulty variant: the dispatch at 782 does not end the invocation *)
ApprovalGroupOther_routed(m) == Route(m, FilterResult(FALSE, FALSE, FALSE, m.message_text, FALSE))

(* lambda_function.py 782-794 with a text that handle_approval_command does not recognise *)
ApprovalGroupOther(m) ==
    /\ out' = <<>>
    /\ last' = [InboundLast(m) EXCEPT !.flow = "approval_group",
                                      !.user_message = m.message_text]
    /\ UNCHANGED <<approval_group_id, ENABLE_DELAYED_RESPONSE, registrations, delayed, pending, revisions, unprocessed,
                   contacts, clients, orders, tasks, reopened>>

(* what the classifier endpoint gives back: an answer that starts with YES, *)
(* one that starts with NO, any other text, or no answer at all (an error  *)
(* or the 5 second timeout)                                                *)
ClassifierReplies == {"YES", "NO", "other", "error"}

(* Faulty variant: a failed call counts as a no *)
is_message_for_ai_fail_closed(reply) == reply = "YES"

(* AIService.is_message_for_ai (ai_service.py 176-228) *)
is_message_for_ai(reply) == IF reply = "error" THEN TRUE ELSE reply = "YES"

(* AIService.is_message_for_ai is asked at 719 only *)
ClassifierAsked(m) ==
    /\ m.group_id # "" /\ ~is_approval_group(m.group_id)
    /\ ~has_trigger_keyword(m.message_text)
    /\ is_awaiting_reply(m.group_id, m.user_id)

ClassifierAnswers(m) ==
    IF ClassifierAsked(m) THEN {is_message_for_ai(reply) : reply \in ClassifierReplies}
    ELSE {TRUE}

(* process_message (622-1187) from the trigger filter on *)
process_message_given(m, is_for_ai) ==
    LET f == TriggerFilter(m, is_for_ai)
    IN  IF f.save THEN SaveUnprocessed(m)
        ELSE IF m.group_id # "" /\ is_approval_group(m.group_id)
        THEN ApprovalGroupOther(m)
        ELSE Route(m, f)

(* process_message (622-1187) *)
process_message(m) ==
    /\ m.group_id = ApprovalGroup => is_approval_enabled
    /\ IF IsAdminCompanyCommand(m)
       THEN AdminCompanyCommand(m)
       ELSE \E is_for_ai \in ClassifierAnswers(m) : process_message_given(m, is_for_ai)

ProcessMessageIn(inbound) ==
    /\ \E m \in inbound : process_message(m)
    /\ UNCHANGED <<procs, hist>>

(* plain chat of a customer in an individual conversation *)
ChatMessages ==
    {m \in Messages : /\ m.user_id = "u1"
                      /\ m.attachments = 0
                      /\ m.group_id = ""
                      /\ m.message_text = <<"hi">>}

(* chat and order requests of a customer, tagged and untagged *)
DraftMessages ==
    {m \in Messages : /\ m.user_id = "u1"
                      /\ m.attachments = 0
                      /\ m.group_id # ApprovalGroup
                      /\ m.message_text \in
                            IF m.group_id = "" THEN {<<"hi">>}
                            ELSE {<<"hi">>, <<"@ai", "hi">>, <<"irai", "fw@irai">>}}

(* what reaches the trigger filter: tagged and untagged group messages of a *)
(* customer and of the administrator, attachments, the company command     *)
RouterTexts ==
    { <<"hi">>, <<"@ai", "hi">>, <<FilePlaceholder>>, <<CompanyTag>>,
      <<"@ai", CompanyTag>> }

RouterMessages ==
    {m \in Messages : /\ m.message_text \in RouterTexts
                      /\ HasCompanyTag(m.message_text) => m.user_id = ADMIN_USER_ID
                      /\ m.user_id = ADMIN_USER_ID =>
                             m.group_id \in CustomerGroups
                             /\ (HasCompanyTag(m.message_text) \/ m.message_text = <<"hi">>)
                      /\ m.group_id = ApprovalGroup => m.message_text = <<"hi">>}

(* orders and deadline corrections, with and without an order id, of a      *)
(* customer in an individual conversation                                  *)
OrderTexts ==
    { <<"hi">>, <<"irai">>, <<"12/4", "deshita">>, <<"2/30", "deshita">>, <<"12/4", "irai">>,
      <<"2/30", "irai">>, <<"0000000a", "12/4">>, <<"00000009", "12/4">> }

OrderMessages ==
    [group_id : {""}, user_id : {"u1"}, message_text : OrderTexts, attachments : {0}]

(* a customer in a group: a tagged chat, tagged and untagged orders, files *)
ReplyModeMessages ==
    [group_id : CustomerGroups, user_id : {"u1"},
     message_text : {<<"@ai", "hi">>, <<"irai">>, <<"@ai", "irai">>}, attachments : {0}]
    \cup [group_id : CustomerGroups, user_id : {"u1"}, message_text : {<<FilePlaceholder>>},
          attachments : {1}]

(* what the members of the approval channel post besides the commands: chat, *)
(* order words, a tagged text, a file, the company tag                     *)
ChannelMessages ==
    [group_id : {ApprovalGroup}, user_id : Users,
     message_text : {<<"hi">>, <<"irai">>, <<"@ai", "hi">>, <<CompanyTag>>}, attachments : {0}]
    \cup [group_id : {ApprovalGroup}, user_id : {"u1"}, message_text : {<<FilePlaceholder>>},
          attachments : {1}]

(* an order of a customer in an individual conversation *)
CustomerOrders ==
    [group_id : {""}, user_id : {"u1"}, message_text : {<<"irai">>}, attachments : {0}]

(* a customer not yet registered: an order, and the answers of the dialogue *)
RegistrationTexts == { <<"irai">>, <<"yes">>, <<"no">>, <<"acme", "inc">>, <<"zeta">> }

RegistrationMessages ==
    [group_id : {""}, user_id : {"u1"}, message_text : RegistrationTexts, attachments : {0}]
    \cup [group_id : CustomerGroups, user_id : {"u1"},
          message_text : {<<"@ai">> \o t : t \in RegistrationTexts}, attachments : {0}]

(* an order, then files and links sent after it, in an individual          *)
(* conversation                                                            *)
AddendaTexts == { <<"irai">>, <<"http://x">>, <<"http://x/12/4">> }

AddendaMessages ==
    [group_id : {""}, user_id : {"u1"}, message_text : AddendaTexts, attachments : {0}]
    \cup [group_id : {""}, user_id : {"u1"}, message_text : {<<FilePlaceholder>>},
          attachments : {1}]

(* a tagged order with two links in a group, and a file the same customer   *)
(* sends in the individual conversation                                    *)
WorkerMessages ==
    [group_id : CustomerGroups, user_id : {"u1"},
     message_text : {<<"@ai", "irai", "http://x", "http://y">>}, attachments : {0}]
    \cup [group_id : {""}, user_id : {"u1"}, message_text : {<<FilePlaceholder>>},
          attachments : {1}]

ProcessMessage == ProcessMessageIn(ChatMessages)

WorkerMessage == ProcessMessageIn(WorkerMessages)

AddendumMessage == ProcessMessageIn(AddendaMessages)

RegistrationMessage == ProcessMessageIn(RegistrationMessages)

ChannelMessage == ProcessMessageIn(ChannelMessages)

CustomerOrder == ProcessMessageIn(CustomerOrders)

ReplyModeMessage == ProcessMessageIn(ReplyModeMessages)

OrderMessage == ProcessMessageIn(OrderMessages)

DraftMessage == ProcessMessageIn(DraftMessages)

RouteMessage == ProcessMessageIn(RouterMessages)

(* The clock: 1 = the 10 minute awaiting-reply window closes, 2 = orders are *)
(* older than 30 minutes as well, 3 = the date changes as well              *)
Elapsed == {1}

TimePasses ==
    \E k \in Elapsed :
        /\ contacts' = [c \in ContactIds |->
                           [today |-> IF k >= 3 THEN FALSE ELSE contacts[c].today,
                            awaiting |-> FALSE]]
        /\ orders' = IF k >= 2
                     THEN [i \in DOMAIN orders |->
                              [orders[i] EXCEPT !.age = IF @ = Within30 THEN Within60 ELSE @]]
                     ELSE orders
        /\ last' = [LastDefault EXCEPT !.op = "time"]
        /\ out' = <<>>
        /\ UNCHANGED <<approval_group_id, ENABLE_DELAYED_RESPONSE, registrations, delayed, procs, hist, pending, revisions,
                       unprocessed, clients, tasks, reopened>>

(* An order grows older than the next cutoff (30 minutes, 60 minutes, 24     *)
(* hours); an order is never younger than one created after it             *)
OrderAges ==
    \E i \in DOMAIN orders :
        /\ orders[i].age < Older
        /\ i > 1 => orders[i - 1].age > orders[i].age
        /\ orders' = [orders EXCEPT ![i].age = @ + 1]
        /\ last' = [LastDefault EXCEPT !.op = "time"]
        /\ out' = <<>>
        /\ UNCHANGED <<approval_group_id, ENABLE_DELAYED_RESPONSE, registrations, delayed, procs, hist, pending, revisions,
                       unprocessed, contacts, clients, tasks, reopened>>

(* The ttl attribute of a buffered message (1 hour): the oldest entry expires *)
ExpireUnprocessed ==
    \E g \in CustomerGroups :
        /\ unprocessed[g] # <<>>
        /\ unprocessed' = [unprocessed EXCEPT ![g] = Tail(@)]
        /\ last' = [LastDefault EXCEPT !.op = "expire"]
        /\ out' = <<>>
        /\ UNCHANGED <<approval_group_id, ENABLE_DELAYED_RESPONSE, registrations, delayed, procs, hist, pending, revisions, contacts,
                       clients, orders, tasks, reopened>>

----------------------------------------------------------------------------
(* Approval pipeline: ApprovalService and the operator commands of         *)
(* handle_approval_command (371-581)                                       *)

(* Faulty variants of get_pending_message: a scan without the status       *)
(* filter, and a scan that skips items that were approved once             *)
get_pending_message_any_status(pending_id) == pending_id \in DOMAIN pending

get_pending_message_never_approved(pending_id) ==
    /\ pending_id \in DOMAIN pending
    /\ pending[pending_id].status = "pending"
    /\ ~reopened[pending_id]

(* ApprovalService.get_pending_message: the scan filters on status pending *)
get_pending_message(pending_id) ==
    pending_id \in DOMAIN pending /\ pending[pending_id].status = "pending"

(* get_message_by_id, from its callers (176, 237, 274): the item whatever its status *)
get_message_by_id(pending_id) == pending_id \in DOMAIN pending

StatusOf(pending_id) ==
    IF pending_id \in DOMAIN pending THEN pending[pending_id].status ELSE "none"

(* ApprovalService.approve_message / reject_message / update_pending_response *)
approve_message(pending_id) ==
    IF get_pending_message(pending_id)
    THEN [pending EXCEPT ![pending_id].status = "approved"] ELSE pending

reject_message(pending_id) ==
    IF get_pending_message(pending_id)
    THEN [pending EXCEPT ![pending_id].status = "rejected"] ELSE pending

(* Faulty variant: the text is updated whatever the status *)
update_pending_response_any_status(pending_id, new_response) ==
    IF pending_id \in DOMAIN pending
    THEN [pending EXCEPT ![pending_id].response_text = new_response] ELSE pending

update_pending_response(pending_id, new_response) ==
    IF get_pending_message(pending_id)
    THEN [pending EXCEPT ![pending_id].response_text = new_response] ELSE pending

(* reopen_message: only valid from approved, back to pending (239) *)
reopen_message(pending_id) ==
    IF get_message_by_id(pending_id) /\ pending[pending_id].status = "approved"
    THEN [pending EXCEPT ![pending_id].status = "pending"] ELSE pending

OperatorReply(pending_id, text) == Ev("reply", approval_group_id, pending_id, text, TRUE)

PushDraft(pending_id, ok) ==
    Ev("push", pending[pending_id].target_id, pending_id, pending[pending_id].response_text, ok)

SlackRequest(pending_id, text) == Ev("slack_request", "slack", pending_id, text, TRUE)

SlackUpdate(pending_id, status) == Ev("slack_update", "slack", pending_id, <<status>>, TRUE)

CommandLast(op, pending_id, ok) ==
    [LastDefault EXCEPT !.op = op, !.id = pending_id, !.pre = StatusOf(pending_id),
                        !.ok = get_pending_message(pending_id) => ok,
                        !.group_id = approval_group_id,
                        !.user_message = IF pending_id \in DOMAIN pending
                                         THEN pending[pending_id].response_text ELSE <<>>]

(* "sousin <id>" (449-472); ok is the result of the LINE push *)
CmdSend ==
    \E pending_id \in KnownIds, ok \in BOOLEAN :
        LET found == get_pending_message(pending_id)
        IN  /\ is_approval_enabled
            /\ pending' = approve_message(pending_id)
            /\ out' = IF found
                      THEN << PushDraft(pending_id, ok),
                              OperatorReply(pending_id, IF ok THEN <<"send_done">>
                                                        ELSE <<"send_failed">>) >>
                      ELSE << OperatorReply(pending_id, <<"not_found">>) >>
            /\ last' = CommandLast("cmd_send", pending_id, ok)
            /\ UNCHANGED <<approval_group_id, ENABLE_DELAYED_RESPONSE, registrations, delayed, procs, hist, revisions, unprocessed,
                           contacts, clients, orders, tasks, reopened>>

(* "kyakka <id>" (475-483) *)
CmdReject ==
    \E pending_id \in KnownIds :
        /\ is_approval_enabled
        /\ pending' = reject_message(pending_id)
        /\ out' = << OperatorReply(pending_id, IF get_pending_message(pending_id)
                                               THEN <<"rejected">> ELSE <<"not_found">>) >>
        /\ last' = CommandLast("cmd_reject", pending_id, TRUE)
        /\ UNCHANGED <<approval_group_id, ENABLE_DELAYED_RESPONSE, registrations, delayed, procs, hist, revisions, unprocessed,
                       contacts, clients, orders, tasks, reopened>>

(* Faulty variant: the record keeps the new text as the original *)
save_revision_lost_original(pending_id, original_response, revision_instruction, revised_response) ==
    [pending_id |-> pending_id, original_response |-> revised_response,
     revision_instruction |-> revision_instruction, revised_response |-> revised_response]

(* RevisionService.save_revision: the stored record *)
save_revision(pending_id, original_response, revision_instruction, revised_response) ==
    [pending_id |-> pending_id, original_response |-> original_response,
     revision_instruction |-> revision_instruction, revised_response |-> revised_response]

(* "prompt-shuusei <id>:<instruction>" (486-549); instruction "" = none given *)
CmdPromptRevise ==
    \E pending_id \in KnownIds, instruction \in Instructions, ai_text \in RevisionOutputs :
        LET found == instruction # "" /\ get_pending_message(pending_id)
            revised_response == <<ai_text>>
        IN  /\ is_approval_enabled
            /\ found => Len(revisions) < MaxRevisions
            /\ pending' = IF found THEN update_pending_response(pending_id, revised_response)
                          ELSE pending
            /\ revisions' = IF found
                            THEN Append(revisions,
                                        save_revision(pending_id, pending[pending_id].response_text,
                                                      instruction, revised_response))
                            ELSE revisions
            /\ out' = << OperatorReply(pending_id,
                                       IF instruction = "" THEN <<"usage">>
                                       ELSE IF found THEN revised_response
                                       ELSE <<"not_found">>) >>
            /\ last' = [CommandLast("cmd_revise", pending_id, TRUE) EXCEPT
                            !.arg = <<instruction>>]
            /\ UNCHANGED <<approval_group_id, ENABLE_DELAYED_RESPONSE, registrations, delayed, procs, hist, unprocessed, contacts,
                           clients, orders, tasks, reopened>>

(* "shuusei <id>" + newline + text (552-579); edited "" = no text after the id *)
CmdEdit ==
    \E pending_id \in KnownIds, edited \in EditTexts :
        LET found == edited # "" /\ get_pending_message(pending_id)
        IN  /\ is_approval_enabled
            /\ pending' = IF found THEN update_pending_response(pending_id, <<edited>>)
                          ELSE pending
            /\ out' = << OperatorReply(pending_id,
                                       IF edited = "" THEN <<"usage">>
                                       ELSE IF found THEN <<edited>>
                                       ELSE <<"not_found">>) >>
            /\ last' = [CommandLast("cmd_edit", pending_id, TRUE) EXCEPT !.arg = <<edited>>]
            /\ UNCHANGED <<approval_group_id, ENABLE_DELAYED_RESPONSE, registrations, delayed, procs, hist, revisions, unprocessed,
                           contacts, clients, orders, tasks, reopened>>

(* ClientService.delete_client: delete_item on the row of the conversation *)
delete_client(group_id) == [clients EXCEPT ![group_id] = NoClient]

(* the registration ids an operator names: a conversation stands for the   *)
(* id of the record written for it, if any                                 *)
RegistrationIds == CustomerGroups \cup {ApprovalGroup}

(* Faulty variant: every id is taken as the id of a record *)
get_registration_for_cancel_any_id(registration_id) == {TRUE}

(* ApprovalService.get_registration_for_cancel (called at 404): a saved    *)
(* record is found, an id without a record is not; whether a record that   *)
(* was cancelled before is still found is left open                        *)
get_registration_for_cancel(registration_id) ==
    CASE registrations[registration_id].status = "saved" -> {TRUE}
      [] registrations[registration_id].status = "cancelled" -> BOOLEAN
      [] OTHER -> {FALSE}

(* ApprovalService.mark_registration_cancelled (called at 408) *)
mark_registration_cancelled(registration_id) ==
    [registrations EXCEPT ![registration_id].status = "cancelled"]

(* "touroku-cancel <id>" (400-412) *)
CmdCancelRegistration ==
    \E registration_id \in RegistrationIds :
        \E found \in get_registration_for_cancel(registration_id) :
            /\ is_approval_enabled
            /\ clients' = IF found THEN delete_client(registration_id) ELSE clients
            /\ registrations' = IF found THEN mark_registration_cancelled(registration_id)
                                ELSE registrations
            /\ out' = << Ev("reply", approval_group_id, 0,
                            IF found THEN <<"registration_cancelled">> ELSE <<"not_found">>,
                            TRUE) >>
            /\ last' = [LastDefault EXCEPT !.op = "cmd_cancel_registration",
                                           !.group_id = approval_group_id,
                                           !.pre = registrations[registration_id].status,
                                           !.arg = <<registration_id>>, !.ok = found]
            /\ UNCHANGED <<approval_group_id, ENABLE_DELAYED_RESPONSE, delayed, procs, hist,
                           pending, revisions, unprocessed, contacts, orders, tasks, reopened>>

----------------------------------------------------------------------------
(* Review channel: handle_slack_interaction (83-317) *)

(* approve_send (122-140): the result of the push is not looked at *)
SlackApprove ==
    \E pending_id \in KnownIds, ok \in BOOLEAN :
        LET found == get_pending_message(pending_id)
        IN  /\ pending' = approve_message(pending_id)
            /\ out' = IF found
                      THEN << PushDraft(pending_id, ok), SlackUpdate(pending_id, "approved") >>
                      ELSE <<>>
            /\ last' = CommandLast("slack_approve", pending_id, ok)
            /\ UNCHANGED <<approval_group_id, ENABLE_DELAYED_RESPONSE, registrations, delayed, procs, hist, revisions, unprocessed,
                           contacts, clients, orders, tasks, reopened>>

(* approve_reject (142-148) *)
SlackReject ==
    \E pending_id \in KnownIds :
        /\ pending' = reject_message(pending_id)
        /\ out' = << SlackUpdate(pending_id, "rejected") >>
        /\ last' = CommandLast("slack_reject", pending_id, TRUE)
        /\ UNCHANGED <<approval_group_id, ENABLE_DELAYED_RESPONSE, registrations, delayed, procs, hist, revisions, unprocessed,
                       contacts, clients, orders, tasks, reopened>>

(* unsend_message (235-256) *)
SlackUnsend ==
    \E pending_id \in KnownIds :
        LET found == get_message_by_id(pending_id)
            done == found /\ reopen_message(pending_id) # pending
        IN  /\ pending' = IF found THEN reopen_message(pending_id) ELSE pending
            /\ reopened' = IF done THEN [reopened EXCEPT ![pending_id] = TRUE]
                           ELSE reopened
            /\ out' = IF found
                      THEN << SlackRequest(pending_id, pending[pending_id].response_text),
                              SlackUpdate(pending_id, "reopened") >>
                      ELSE <<>>
            /\ last' = CommandLast("slack_unsend", pending_id, TRUE)
            /\ UNCHANGED <<approval_group_id, ENABLE_DELAYED_RESPONSE, registrations, delayed, procs, hist, revisions, unprocessed,
                           contacts, clients, orders, tasks>>

(* view_submission of edit_response_modal (258-309) *)
SlackEditSubmit ==
    \E pending_id \in KnownIds, edited \in EditTexts, prompt_instruction \in Instructions \cup {""},
       ai_text \in RevisionOutputs :
        LET found == get_message_by_id(pending_id)
            new_text == IF prompt_instruction # "" THEN <<ai_text>> ELSE <<edited>>
        IN  /\ pending' = IF found THEN update_pending_response(pending_id, new_text)
                          ELSE pending
            /\ out' = IF found THEN << SlackRequest(pending_id, new_text) >> ELSE <<>>
            /\ last' = [CommandLast("slack_edit", pending_id, TRUE) EXCEPT !.arg = new_text]
            /\ UNCHANGED <<approval_group_id, ENABLE_DELAYED_RESPONSE, registrations, delayed, procs, hist, revisions, unprocessed,
                           contacts, clients, orders, tasks, reopened>>

----------------------------------------------------------------------------
----------------------------------------------------------------------------
(* The file-processing worker (src/lambda/file_processor.py).  The queue    *)
(* delivers a task at least once; delivered counts the deliveries of a     *)
(* task, noticed tells that a completion notice was composed for it.       *)

(* what happens to one item: both transfers succeed, the download raises or *)
(* returns nothing, or upload_to_folder fails and returns None             *)
Outcomes == {"ok", "download_failed", "upload_failed"}

Handled(item, result) == [item |-> item, stored |-> result = "ok"]

(* Faulty variant: the first failure ends the loop *)
RECURSIVE ProcessItems_abort_on_failure(_, _, _)
ProcessItems_abort_on_failure(i, items, results) == IF i > Len(items) \/ results[i] # "ok" THEN <<>> ELSE <<Handled(items[i], results[i])>> \o ProcessItems_abort_on_failure(i + 1, items, results)

(* the loop of process_attachments_task (128-165), and download_all        *)
(* followed by upload_files_to_folder: an item whose download fails is     *)
(* skipped, the others are uploaded and listed                             *)
RECURSIVE ProcessItems(_, _, _)
ProcessItems(i, items, results) ==
    IF i > Len(items) THEN <<>>
    ELSE (IF results[i] = "download_failed" THEN <<>> ELSE <<Handled(items[i], results[i])>>)
         \o ProcessItems(i + 1, items, results)

RECURSIVE ListedFiles(_)
ListedFiles(handled) ==
    IF handled = <<>> THEN <<>> ELSE <<Head(handled).item>> \o ListedFiles(Tail(handled))

RECURSIVE UploadEvents(_)
UploadEvents(handled) ==
    IF handled = <<>> THEN <<>>
    ELSE (IF Head(handled).stored THEN <<Ev("upload", "drive", 0, <<Head(handled).item>>, TRUE)>>
          ELSE <<>>) \o UploadEvents(Tail(handled))

(* Faulty variant: the notice always goes straight to the customer *)
notice_via_direct(enabled) == "direct"

(* 207-233 and 297-322: where the completion notice goes *)
notice_via(enabled) == IF enabled THEN "pending" ELSE "direct"

(* process_attachments_task (80-233) and process_urls_task (235-322) *)
process_file_task(t, results, folder_created) ==
    LET task == tasks[t]
        folder == task.folder \/ (task.task_type = "process_attachments" /\ folder_created)
        handled == IF folder THEN ProcessItems(1, task.items, results) ELSE <<>>
        listed == ListedFiles(handled)
        notification == <<"files_saved">> \o listed
        via == IF listed = <<>> THEN "none" ELSE notice_via(is_approval_enabled)
        pending_id == IF via = "pending" THEN Len(pending) + 1 ELSE 0
        target_type == IF task.is_group THEN "group" ELSE "user"
    IN  /\ via = "pending" => Len(pending) < MaxPending
        /\ orders' = [orders EXCEPT ![task.order_id].folder = @ \/ folder,
                                    ![task.order_id].notes = IF listed # <<>> THEN @ + 1 ELSE @]
        /\ pending' = IF via = "pending"
                      THEN Append(pending,
                                  save_pending_message(task.target_id, target_type, notification))
                      ELSE pending
        /\ out' = UploadEvents(handled) \o
                  (CASE via = "pending" ->
                          <<Ev("push", approval_group_id, 0, <<"review_request">> \o notification, TRUE)>>
                     [] via = "direct" -> <<Ev("push", task.target_id, 0, notification, TRUE)>>
                     [] OTHER -> <<>>)
        /\ tasks' = [tasks EXCEPT ![t].delivered = @ + 1,
                                  ![t].noticed = @ \/ via # "none"]
        /\ last' = [LastDefault EXCEPT !.op = "file_task", !.id = pending_id, !.via = via,
                                       !.flow = task.task_type, !.text = task.items,
                                       !.arg = results, !.ok = folder,
                                       !.group_id = IF task.is_group THEN task.target_id ELSE "",
                                       !.user_id = IF task.is_group THEN "" ELSE task.target_id]
        /\ UNCHANGED <<approval_group_id, ENABLE_DELAYED_RESPONSE, registrations, delayed, procs, hist, revisions, unprocessed,
                       contacts, clients, reopened>>

(* DriveService.create_order_folder is tried by the attachment task of an   *)
(* order without a folder (107-118)                                        *)
FolderCreation(task) ==
    IF task.task_type = "process_attachments" /\ ~task.folder THEN BOOLEAN ELSE {FALSE}

(* file_processor_handler (19-50) with one record *)
file_processor_handler ==
    \E t \in DOMAIN tasks :
        /\ tasks[t].delivered < MaxDeliveries
        /\ \E results \in [DOMAIN tasks[t].items -> Outcomes],
              folder_created \in FolderCreation(tasks[t]) :
                process_file_task(t, results, folder_created)

Next ==
    \/ ProcessMessage
    \/ CmdSend
    \/ CmdReject
    \/ CmdPromptRevise
    \/ CmdEdit
    \/ SlackApprove
    \/ SlackReject
    \/ SlackUnsend
    \/ SlackEditSubmit

Spec == Init /\ [][Next]_vars

(* drafting and approving, in every configuration *)
NextDraft ==
    \/ DraftMessage
    \/ CmdSend
    \/ SlackApprove

SpecDraft == InitDraft /\ [][NextDraft]_vars

(* the router alone, over all inbound messages *)
NextRouter ==
    \/ RouteMessage
    \/ TimePasses
    \/ ExpireUnprocessed

SpecRouter == InitRouter /\ [][NextRouter]_vars

(* the flows of a registered customer: orders, addenda, deadline corrections *)
NextOrders ==
    \/ OrderMessage
    \/ OrderAges

SpecOrders == InitOrders /\ [][NextOrders]_vars

(* the operator commands and a customer's deadline corrections, with ids   *)
(* that name a stored record and ids that name none                        *)
NotFoundTexts == { <<"irai">>, <<"0000000a", "12/4">>, <<"00000009", "12/4">> }

NotFoundMessages ==
    [group_id : {""}, user_id : {"u1"}, message_text : NotFoundTexts, attachments : {0}]
    \cup [group_id : CustomerGroups, user_id : {ADMIN_USER_ID},
          message_text : {<<CompanyTag>>}, attachments : {0}]

InitNotFound == InitWith(RegisteredClients, {<<ApprovalGroup, FALSE>>})

NotFoundMessage == ProcessMessageIn(NotFoundMessages)

(* the operator revises or edits under an id that names no pending item *)
ReviseUnknownId == CmdPromptRevise /\ ~get_pending_message(last'.id)

EditUnknownId == CmdEdit /\ ~get_pending_message(last'.id)

NextNotFound ==
    \/ NotFoundMessage
    \/ OrderAges
    \/ CmdSend
    \/ CmdReject
    \/ ReviseUnknownId
    \/ EditUnknownId
    \/ CmdCancelRegistration

SpecNotFound == InitNotFound /\ [][NextNotFound]_vars

(* a group conversation inside and outside the awaiting-reply window *)
NextReply ==
    \/ ReplyModeMessage
    \/ TimePasses

SpecReply == InitOrders /\ [][NextReply]_vars

(* the approval channel: its commands and everything else posted there *)
NextChannel ==
    \/ CustomerOrder
    \/ ChannelMessage
    \/ CmdSend
    \/ CmdReject
    \/ CmdEdit

SpecChannel == Init /\ [][NextChannel]_vars

(* the registration dialogue of a group and of an individual conversation *)
NextRegistration ==
    \/ RegistrationMessage
    \/ TimePasses

SpecRegistration == InitRegistration /\ [][NextRegistration]_vars

(* files and links that follow an order *)
NextAddenda ==
    \/ AddendumMessage
    \/ OrderAges

SpecAddenda == InitOrders /\ [][NextAddenda]_vars

(* the worker, the messages that give it work, and the approval of its notice *)
NextWorker ==
    \/ WorkerMessage
    \/ file_processor_handler
    \/ CmdSend

SpecWorker == InitWorker /\ [][NextWorker]_vars

----------------------------------------------------------------------------
(* Delayed sending: the retraction event and delayed_response_handler.     *)
(* An invocation of the handler is not atomic: it reads the row, pushes    *)
(* and marks the row in three steps, and SQS may hand the same message to  *)
(* several invocations (at-least-once delivery).                           *)

(* handle_unsend_event (318-328) *)
handle_unsend_event ==
    \E message_id \in MessageIds :
        /\ delayed' = cancel_response(message_id)
        /\ last' = [LastDefault EXCEPT !.op = "unsend", !.id = message_id,
                                       !.pre = delayed[message_id].status]
        /\ out' = <<>>
        /\ UNCHANGED <<approval_group_id, ENABLE_DELAYED_RESPONSE, registrations, procs, hist,
                       pending, revisions, unprocessed, contacts, clients, orders, tasks,
                       reopened>>

InFlight(message_id) ==
    {slot \in Slots : procs[slot].op = "deliver" /\ procs[slot].id = message_id}

(* 1315-1319: the record arrives and get_pending_response reads the row *)
DeliveryReads ==
    \E slot \in Slots, message_id \in MessageIds :
        LET found == get_pending_response(message_id)
        IN  /\ procs[slot].pc = "idle"
            /\ delayed[message_id].queued
            /\ procs' = [procs EXCEPT ![slot] =
                             IF found
                             THEN [pc |-> "push", op |-> "deliver", id |-> message_id,
                                   snap |-> <<delayed[message_id]>>]
                             ELSE Idle]
            /\ last' = [LastDefault EXCEPT !.op = "deliver_read", !.id = message_id,
                                           !.pre = delayed[message_id].status, !.ok = found]
            /\ out' = <<>>
            /\ UNCHANGED <<approval_group_id, ENABLE_DELAYED_RESPONSE, registrations, delayed,
                           hist, pending, revisions, unprocessed, contacts, clients, orders,
                           tasks, reopened>>

(* 1321-1329: the push of the text that was read; success is its result *)
DeliveryPushes ==
    \E slot \in Slots, success \in BOOLEAN :
        LET row == procs[slot].snap[1]
            sent == Ev("push", row.target_id, procs[slot].id, row.response_text, success)
        IN  /\ procs[slot].op = "deliver"
            /\ procs[slot].pc = "push"
            /\ hist' = IF success THEN Append(hist, sent) ELSE hist
            /\ procs' = [procs EXCEPT ![slot] = IF success THEN [@ EXCEPT !.pc = "mark"]
                                                ELSE Idle]
            /\ last' = [LastDefault EXCEPT !.op = "deliver_push", !.id = procs[slot].id,
                                           !.pre = delayed[procs[slot].id].status,
                                           !.ok = success]
            /\ out' = <<sent>>
            /\ UNCHANGED <<approval_group_id, ENABLE_DELAYED_RESPONSE, registrations, delayed,
                           pending, revisions, unprocessed, contacts, clients, orders, tasks,
                           reopened>>

(* 1331-1332: mark_as_sent after a successful push *)
DeliveryMarks ==
    \E slot \in Slots :
        /\ procs[slot].op = "deliver"
        /\ procs[slot].pc = "mark"
        /\ delayed' = mark_as_sent(procs[slot].id)
        /\ procs' = [procs EXCEPT ![slot] = Idle]
        /\ last' = [LastDefault EXCEPT !.op = "deliver_mark", !.id = procs[slot].id,
                                       !.pre = delayed[procs[slot].id].status]
        /\ out' = <<>>
        /\ UNCHANGED <<approval_group_id, ENABLE_DELAYED_RESPONSE, registrations, hist,
                       pending, revisions, unprocessed, contacts, clients, orders, tasks,
                       reopened>>

(* delayed sending without the approval pipeline *)
InitDelivery == InitWith(RegisteredClients, {<<"", TRUE>>})

(* chat of a customer, in an individual conversation and tagged in a group *)
DeliveryMessages ==
    [group_id : {""}, user_id : {"u1"}, message_text : {<<"hi">>}, attachments : {0}]
    \cup [group_id : CustomerGroups, user_id : {"u1"}, message_text : {<<"@ai", "hi">>},
          attachments : {0}]

DeliveryMessage == ProcessMessageIn(DeliveryMessages)

NextDelivery ==
    \/ DeliveryMessage
    \/ handle_unsend_event
    \/ DeliveryReads
    \/ DeliveryPushes
    \/ DeliveryMarks

SpecDelivery == InitDelivery /\ [][NextDelivery]_vars

----------------------------------------------------------------------------
(* lambda_handler (45-80): the webhook entry point.  The messages of one   *)
(* request are processed in a loop; an invocation in flight keeps the      *)
(* messages still to be processed (snap) and the number processed (id).    *)

(* response_ok (1294-1300) *)
response_ok == [statusCode |-> 200, body |-> <<"OK">>]

(* Faulty variant: an exception is answered with an error status *)
lambda_handler_response_error_status(l) == IF l.op \in {"webhook_error", "slack_error"} \/ l.via = "raised" THEN [statusCode |-> 500, body |-> <<>>] ELSE IF l.op = "slack_edit" THEN [statusCode |-> 200, body |-> <<>>] ELSE response_ok

(* what the invocation recorded in l returned: a view_submission that was  *)
(* handled without an exception returns an empty body (305-309), every     *)
(* other path ends in response_ok (65, 80, 110, 311, 317)                  *)
lambda_handler_response(l) ==
    IF l.op = "slack_edit" THEN [statusCode |-> 200, body |-> <<>>] ELSE response_ok

(* the ops of last that are invocations of lambda_handler *)
WebhookOps ==
    {"process_message", "unsend", "webhook_error", "webhook_no_handler", "cmd_send",
     "cmd_reject", "cmd_revise", "cmd_edit", "cmd_cancel_registration", "slack_approve",
     "slack_reject", "slack_unsend", "slack_edit", "slack_error"}

(* the body is not JSON: json.loads raises at 52, caught at 75 *)
UnparseableBody ==
    /\ last' = [LastDefault EXCEPT !.op = "webhook_error", !.ok = FALSE]
    /\ out' = <<>>
    /\ UNCHANGED <<approval_group_id, ENABLE_DELAYED_RESPONSE, registrations, delayed, procs, hist,
                   pending, revisions, unprocessed, contacts, clients, orders, tasks, reopened>>

(* get_handler finds no platform for the request (63-65) *)
UnknownPlatform ==
    /\ last' = [LastDefault EXCEPT !.op = "webhook_no_handler"]
    /\ out' = <<>>
    /\ UNCHANGED <<approval_group_id, ENABLE_DELAYED_RESPONSE, registrations, delayed, procs, hist,
                   pending, revisions, unprocessed, contacts, clients, orders, tasks, reopened>>

(* handle_slack_interaction: the payload cannot be read, or the first table *)
(* write of the action raises (approval_service.py 96, 118, 132); caught at *)
(* 313-317                                                                 *)
SlackRaises ==
    \E pending_id \in KnownIds :
        /\ last' = [LastDefault EXCEPT !.op = "slack_error", !.id = pending_id, !.ok = FALSE]
        /\ out' = <<>>
        /\ UNCHANGED <<approval_group_id, ENABLE_DELAYED_RESPONSE, registrations, delayed, procs,
                       hist, pending, revisions, unprocessed, contacts, clients, orders, tasks,
                       reopened>>

(* chat of a customer in an individual conversation *)
WebhookMessages == ChatMessages

RECURSIVE SeqsUpTo(_, _)
SeqsUpTo(S, n) ==
    IF n = 0 THEN {<<>>}
    ELSE SeqsUpTo(S, n - 1) \cup {Append(q, x) : q \in SeqsUpTo(S, n - 1), x \in S}

(* handler.parse_event (72): the message events of one request *)
Batches == SeqsUpTo(WebhookMessages, MaxBatch) \ {<<>>}

(* one request is in flight at a time *)
WebhookSlots == {1}

WebhookReceives ==
    \E slot \in WebhookSlots, messages \in Batches :
        /\ procs[slot].pc \in {"idle", "returned"}
        /\ procs' = [procs EXCEPT ![slot] = [pc |-> "loop", op |-> "webhook", id |-> 0,
                                             snap |-> messages]]
        /\ last' = [LastDefault EXCEPT !.op = "parse_event", !.arg = messages]
        /\ out' = <<>>
        /\ UNCHANGED <<approval_group_id, ENABLE_DELAYED_RESPONSE, registrations, delayed, hist,
                       pending, revisions, unprocessed, contacts, clients, orders, tasks,
                       reopened>>

(* the invocation goes on to the next message, or returns after the last *)
AfterMessage(slot) ==
    [procs EXCEPT ![slot] = [pc |-> IF Len(@.snap) = 1 THEN "returned" ELSE "loop",
                             op |-> "webhook", id |-> @.id + 1, snap |-> Tail(@.snap)]]

(* 74-75: process_message for the next message of the request *)
WebhookProcesses ==
    \E slot \in WebhookSlots :
        /\ procs[slot].op = "webhook"
        /\ procs[slot].pc = "loop"
        /\ process_message(Head(procs[slot].snap))
        /\ procs' = AfterMessage(slot)
        /\ UNCHANGED hist

(* process_message has no try of its own.  For a chat message on its way   *)
(* to the approval pipeline, the put_item of save_pending_message          *)
(* (approval_service.py 64) raises: the greeting has recorded the contact  *)
(* (greeting_service.py 85), nothing else is written.                      *)
process_message_raises(m) ==
    \E is_for_ai \in ClassifierAnswers(m), hour \in Hours :
        LET f == TriggerFilter(m, is_for_ai)
            contact_id == contact_id_of(m.group_id, m.user_id)
        IN  /\ ~IsAdminCompanyCommand(m)
            /\ ~f.save
            /\ ~(m.group_id # "" /\ is_approval_group(m.group_id))
            /\ ~is_pending_registration(target_id_of(m))
            /\ client_of(m).status = "active"
            /\ DeadlineCase(m, f) = "none"
            /\ FlowOf(m, f) = "chat"
            /\ send_response_via(f.has_trigger, hour) = "pending"
            /\ contacts' = IF ~contacts[contact_id].today
                           THEN [contacts EXCEPT ![contact_id] =
                                    [today |-> TRUE, awaiting |-> TRUE]]
                           ELSE contacts
            /\ unprocessed' = BufferAfter(m, f)
            /\ out' = <<>>
            /\ last' = [ProcessedLast(m, f, "chat", "raised", 0, FALSE) EXCEPT !.ok = FALSE]
            /\ UNCHANGED <<approval_group_id, ENABLE_DELAYED_RESPONSE, registrations, delayed,
                           pending, revisions, clients, orders, tasks, reopened>>

(* 77-80: the exception leaves the loop and the invocation returns *)
WebhookRaises ==
    \E slot \in WebhookSlots :
        /\ procs[slot].op = "webhook"
        /\ procs[slot].pc = "loop"
        /\ process_message_raises(Head(procs[slot].snap))
        /\ procs' = [procs EXCEPT ![slot] = [pc |-> "returned", op |-> "webhook",
                                             id |-> @.id, snap |-> Tail(@.snap)]]
        /\ UNCHANGED hist

NextWebhook ==
    \/ WebhookReceives
    \/ WebhookProcesses
    \/ WebhookRaises
    \/ handle_unsend_event
    \/ UnparseableBody
    \/ UnknownPlatform
    \/ SlackApprove
    \/ SlackReject
    \/ SlackEditSubmit
    \/ SlackRaises

SpecWebhook == Init /\ [][NextWebhook]_vars

----------------------------------------------------------------------------
(* Approvals handled by separate invocations.  approve_message             *)
(* (approval_service.py 81-110) reads the item with get_pending_message    *)
(* and then writes the status with an update_item that carries no          *)
(* condition; the caller pushes the text that was read (122-134, 449-463). *)

ApproveEntries == {"cmd_send", "slack_approve"}

(* 91-93: get_pending_message inside approve_message *)
ApproveReads ==
    \E slot \in Slots, pending_id \in KnownIds, op \in ApproveEntries :
        LET found == get_pending_message(pending_id)
        IN  /\ is_approval_enabled
            /\ procs[slot].pc = "idle"
            /\ procs' = [procs EXCEPT ![slot] =
                             IF found
                             THEN [pc |-> "update", op |-> op, id |-> pending_id,
                                   snap |-> <<pending[pending_id]>>]
                             ELSE Idle]
            /\ out' = IF ~found /\ op = "cmd_send"
                      THEN << OperatorReply(pending_id, <<"not_found">>) >>
                      ELSE <<>>
            /\ last' = [LastDefault EXCEPT !.op = "approve_read", !.id = pending_id,
                                           !.pre = StatusOf(pending_id), !.ok = found,
                                           !.via = op]
            /\ UNCHANGED <<approval_group_id, ENABLE_DELAYED_RESPONSE, registrations, delayed,
                           hist, pending, revisions, unprocessed, contacts, clients, orders,
                           tasks, reopened>>

(* 96-104: update_item on the key that was read *)
ApproveUpdates ==
    \E slot \in Slots :
        /\ procs[slot].op \in ApproveEntries
        /\ procs[slot].pc = "update"
        /\ pending' = [pending EXCEPT ![procs[slot].id].status = "approved"]
        /\ procs' = [procs EXCEPT ![slot].pc = "push"]
        /\ out' = <<>>
        /\ last' = [LastDefault EXCEPT !.op = "approve_update", !.id = procs[slot].id,
                                       !.pre = StatusOf(procs[slot].id),
                                       !.via = procs[slot].op]
        /\ UNCHANGED <<approval_group_id, ENABLE_DELAYED_RESPONSE, registrations, delayed,
                       hist, revisions, unprocessed, contacts, clients, orders, tasks,
                       reopened>>

(* the push of the text that approve_message returned, and the answer to   *)
(* the operator or the update of the review request                        *)
ApprovePushes ==
    \E slot \in Slots, ok \in BOOLEAN :
        LET pending_id == procs[slot].id
            row == procs[slot].snap[1]
            sent == Ev("push", row.target_id, pending_id, row.response_text, ok)
        IN  /\ procs[slot].op \in ApproveEntries
            /\ procs[slot].pc = "push"
            /\ hist' = Append(hist, sent)
            /\ procs' = [procs EXCEPT ![slot] = Idle]
            /\ out' = IF procs[slot].op = "cmd_send"
                      THEN << sent, OperatorReply(pending_id, IF ok THEN <<"send_done">>
                                                              ELSE <<"send_failed">>) >>
                      ELSE << sent, SlackUpdate(pending_id, "approved") >>
            /\ last' = [LastDefault EXCEPT !.op = "approve_push", !.id = pending_id,
                                           !.pre = StatusOf(pending_id), !.ok = ok,
                                           !.via = procs[slot].op]
            /\ UNCHANGED <<approval_group_id, ENABLE_DELAYED_RESPONSE, registrations, delayed,
                           pending, revisions, unprocessed, contacts, clients, orders, tasks,
                           reopened>>

NextApprove ==
    \/ ProcessMessage
    \/ ApproveReads
    \/ ApproveUpdates
    \/ ApprovePushes

SpecApprove == Init /\ [][NextApprove]_vars

RejectEntries == {"cmd_reject", "slack_reject"}

(* reject_message (112-124), first half: get_pending_message; without an    *)
(* item the command answers "not found" (480-481), the review channel      *)
(* updates its request all the same (139-142)                              *)
RejectReads ==
    \E slot \in Slots, pending_id \in KnownIds, op \in RejectEntries :
        LET found == get_pending_message(pending_id)
        IN  /\ is_approval_enabled
            /\ procs[slot].pc = "idle"
            /\ procs' = [procs EXCEPT ![slot] =
                             IF found
                             THEN [pc |-> "update", op |-> op, id |-> pending_id,
                                   snap |-> <<pending[pending_id]>>]
                             ELSE Idle]
            /\ out' = IF found THEN <<>>
                      ELSE IF op = "cmd_reject"
                      THEN << OperatorReply(pending_id, <<"not_found">>) >>
                      ELSE << SlackUpdate(pending_id, "rejected") >>
            /\ last' = [LastDefault EXCEPT !.op = "reject_read", !.id = pending_id,
                                           !.pre = StatusOf(pending_id), !.ok = found,
                                           !.via = op]
            /\ UNCHANGED <<approval_group_id, ENABLE_DELAYED_RESPONSE, registrations, delayed,
                           hist, pending, revisions, unprocessed, contacts, clients, orders,
                           tasks, reopened>>

(* reject_message, second half: update_item on the key that was read, then *)
(* the answer to the operator or the update of the review request          *)
RejectUpdates ==
    \E slot \in Slots :
        /\ procs[slot].op \in RejectEntries
        /\ procs[slot].pc = "update"
        /\ pending' = [pending EXCEPT ![procs[slot].id].status = "rejected"]
        /\ procs' = [procs EXCEPT ![slot] = Idle]
        /\ out' = IF procs[slot].op = "cmd_reject"
                  THEN << OperatorReply(procs[slot].id, <<"rejected">>) >>
                  ELSE << SlackUpdate(procs[slot].id, "rejected") >>
        /\ last' = [LastDefault EXCEPT !.op = "reject_update", !.id = procs[slot].id,
                                       !.pre = StatusOf(procs[slot].id),
                                       !.via = procs[slot].op]
        /\ UNCHANGED <<approval_group_id, ENABLE_DELAYED_RESPONSE, registrations, delayed,
                       hist, revisions, unprocessed, contacts, clients, orders, tasks,
                       reopened>>

(* approvals and rejections of the same items by separate invocations *)
NextReject ==
    \/ ProcessMessage
    \/ ApproveReads
    \/ ApproveUpdates
    \/ ApprovePushes
    \/ RejectReads
    \/ RejectUpdates

SpecReject == Init /\ [][NextReject]_vars

----------------------------------------------------------------------------
(* A tagged group message handled step by step (735-750): the buffer is    *)
(* read, delete_unprocessed_messages reads it again and deletes what it    *)
(* finds (unprocessed_message_service.py 79-92), and the message goes on   *)
(* with the text that was combined from the first read.  snap holds the    *)
(* message and the buffer as it was read.                                  *)

(* tagged chat of the customer in a group *)
TriggerMessages ==
    [group_id : CustomerGroups, user_id : {"u1"}, message_text : {<<"@ai", "hi">>},
     attachments : {0}]

(* untagged chat in a group, of the customer and of the administrator *)
UntaggedMessages ==
    [group_id : CustomerGroups, user_id : Users, message_text : {<<"hi">>}, attachments : {0}]

UntaggedMessage == ProcessMessageIn(UntaggedMessages)

(* two triggers may be in flight at once *)
DrainSlots == {1, 2}

(* 737: get_unprocessed_messages for the trigger *)
DrainReads ==
    \E slot \in DrainSlots, m \in TriggerMessages :
        LET unprocessed_messages == get_unprocessed_messages(m.group_id)
        IN  /\ procs[slot].pc = "idle"
            /\ procs' = [procs EXCEPT ![slot] =
                             [pc |-> IF unprocessed_messages # <<>> THEN "delete"
                                     ELSE "proceed",
                              op |-> "drain", id |-> 0, snap |-> <<m, unprocessed_messages>>]]
            /\ out' = <<>>
            /\ last' = [InboundLast(m) EXCEPT !.op = "drain_read", !.arg = unprocessed_messages]
            /\ UNCHANGED <<approval_group_id, ENABLE_DELAYED_RESPONSE, registrations, delayed,
                           hist, pending, revisions, unprocessed, contacts, clients, orders,
                           tasks, reopened>>

(* 747: delete_unprocessed_messages queries the buffer again and deletes   *)
(* every message it finds; arg is what was read at 737 and will be         *)
(* replayed, old is what is deleted                                        *)
DrainDeletes ==
    \E slot \in DrainSlots :
        LET m == procs[slot].snap[1]
        IN  /\ procs[slot].op = "drain"
            /\ procs[slot].pc = "delete"
            /\ unprocessed' = [unprocessed EXCEPT ![m.group_id] = <<>>]
            /\ procs' = [procs EXCEPT ![slot].pc = "proceed"]
            /\ out' = <<>>
            /\ last' = [InboundLast(m) EXCEPT !.op = "drain_delete",
                                              !.arg = procs[slot].snap[2]]
            /\ UNCHANGED <<approval_group_id, ENABLE_DELAYED_RESPONSE, registrations, delayed,
                           hist, pending, revisions, contacts, clients, orders, tasks,
                           reopened>>

(* 752 and on: the rest of process_message with the combined text *)
DrainProceeds ==
    \E slot \in DrainSlots :
        LET m == procs[slot].snap[1]
            unprocessed_messages == procs[slot].snap[2]
            user_message == IF unprocessed_messages # <<>>
                            THEN combine_messages(unprocessed_messages, m.message_text)
                            ELSE remove_trigger_keyword(m.message_text)
        IN  /\ procs[slot].op = "drain"
            /\ procs[slot].pc = "proceed"
            /\ Route(m, FilterResult(FALSE, TRUE, FALSE, user_message, FALSE))
            /\ procs' = [procs EXCEPT ![slot] = Idle]
            /\ UNCHANGED hist

NextDrain ==
    \/ UntaggedMessage
    \/ DrainReads
    \/ DrainDeletes
    \/ DrainProceeds

SpecDrain == InitOrders /\ [][NextDrain]_vars

----------------------------------------------------------------------------
(* A file sent after an order, handled step by step (957-1000).            *)
(* add_attachment_to_order (order_service.py 161-186) reads the order,     *)
(* appends to the list it read and writes the whole list back.  snap holds *)
(* the message and the number of notes that were read.                     *)

(* a file of the customer in an individual conversation *)
FileAddenda ==
    [group_id : {""}, user_id : {"u1"}, message_text : {<<FilePlaceholder>>}, attachments : {1}]

(* two messages may be in flight at once *)
AddendumSlots == {1, 2}

(* 960, 985-996 and get_order at 165: the recent order is selected, the    *)
(* task is queued and the order is read                                    *)
AddendumReads ==
    \E slot \in AddendumSlots, m \in FileAddenda :
        LET recent_order == get_recent_order(m.group_id, m.user_id)
        IN  /\ procs[slot].pc = "idle"
            /\ client_of(m).status = "active"
            /\ recent_order # 0
            /\ Len(tasks) < MaxAddenda
            /\ tasks' = Append(tasks, EnrichmentTask("process_attachments", recent_order,
                                                      orders[recent_order].created_at,
                                                      orders[recent_order].folder,
                                                      <<"file">>, m))
            /\ procs' = [procs EXCEPT ![slot] =
                             [pc |-> "write", op |-> "addendum", id |-> recent_order,
                              snap |-> <<m, orders[recent_order].notes>>]]
            /\ out' = <<>>
            /\ last' = [InboundLast(m) EXCEPT !.op = "addendum_read", !.id = recent_order]
            /\ UNCHANGED <<approval_group_id, ENABLE_DELAYED_RESPONSE, registrations, delayed,
                           hist, pending, revisions, unprocessed, contacts, clients, orders,
                           reopened>>

(* update_item at 175-179 with the list that was read and the new note,    *)
(* then the reply and record_contact                                       *)
AddendumWrites ==
    \E slot \in AddendumSlots :
        LET m == procs[slot].snap[1]
            order_id == procs[slot].id
            contact_id == contact_id_of(m.group_id, m.user_id)
            text == IF contacts[contact_id].today THEN <<"data_received">>
                    ELSE <<"greeting", "data_received">>
        IN  /\ procs[slot].op = "addendum"
            /\ procs[slot].pc = "write"
            /\ orders' = [orders EXCEPT ![order_id].notes = procs[slot].snap[2] + 1]
            /\ contacts' = [contacts EXCEPT ![contact_id] = [today |-> TRUE, awaiting |-> TRUE]]
            /\ procs' = [procs EXCEPT ![slot] = Idle]
            /\ out' = <<Reply(m, text)>>
            /\ last' = [InboundLast(m) EXCEPT !.op = "addendum_write", !.id = order_id,
                                              !.flow = "addendum_attachment", !.via = "direct"]
            /\ UNCHANGED <<approval_group_id, ENABLE_DELAYED_RESPONSE, registrations, delayed,
                           hist, pending, revisions, unprocessed, clients, tasks, reopened>>

NextAddendaRace ==
    \/ CustomerOrder
    \/ OrderAges
    \/ AddendumReads
    \/ AddendumWrites

SpecAddendaRace == InitOrders /\ [][NextAddendaRace]_vars

----------------------------------------------------------------------------
(* The yes/no classifier of the awaiting-reply window.  The invocation     *)
(* keeps what the endpoint gave back in its slot.                          *)

(* a customer in a group: tagged chat and orders, untagged chat and orders *)
ClassifierMessages ==
    [group_id : CustomerGroups, user_id : {"u1"},
     message_text : {<<"hi">>, <<"@ai", "hi">>, <<"irai">>, <<"@ai", "irai">>},
     attachments : {0}]

InitClassifier == InitWith(RegisteredClients, {<<ApprovalGroup, FALSE>>, <<"", FALSE>>})

Asked(reply) == [Idle EXCEPT !.op = "is_message_for_ai", !.snap = <<reply>>]

(* process_message for a customer's group message, the classifier's reply given *)
ClassifiedMessage ==
    \E m \in ClassifierMessages :
        IF ClassifierAsked(m)
        THEN \E reply \in ClassifierReplies :
                 /\ process_message_given(m, is_message_for_ai(reply))
                 /\ procs' = [procs EXCEPT ![1] = Asked(reply)]
                 /\ UNCHANGED hist
        ELSE /\ process_message_given(m, TRUE)
             /\ procs' = [procs EXCEPT ![1] = Idle]
             /\ UNCHANGED hist

NextClassifier ==
    \/ ClassifiedMessage
    \/ TimePasses

SpecClassifier == InitClassifier /\ [][NextClassifier]_vars

----------------------------------------------------------------------------
(* The awaiting-reply window in a group with two members.  hist keeps, once *)
(* per member, whom record_contact was called for after a reply.           *)

GroupMembers == {"u1", "u2"}

WindowMessages ==
    [group_id : CustomerGroups, user_id : GroupMembers,
     message_text : {<<"hi">>, <<"@ai", "hi">>}, attachments : {0}]

RepliedTo(user_id) == \E i \in DOMAIN hist : hist[i].ch = "contact" /\ hist[i].to = user_id

(* process_message for a member's message; 1187 records the contact after a reply *)
WindowMessage ==
    \E m \in WindowMessages :
        /\ process_message(m)
        /\ hist' = IF last'.flow = "buffered" \/ RepliedTo(m.user_id) THEN hist
                   ELSE Append(hist, Ev("contact", m.user_id, 0, <<>>, TRUE))
        /\ UNCHANGED procs

NextWindow ==
    \/ WindowMessage
    \/ TimePasses

SpecWindow == InitOrders /\ [][NextWindow]_vars

----------------------------------------------------------------------------
(* Addenda and their consumption.  hist keeps the replies that told the    *)
(* customer that a notice will follow, each with the place of its task on  *)
(* the queue.                                                              *)

AddendumFlows == {"addendum_attachment", "addendum_url"}

(* the reply of 974-977 / 1010-1013 *)
Promise(m, t) == Ev("reply", target_id_of(m), t, <<"notice_will_follow">>, TRUE)

(* an order, a file and a link of a customer *)
ConsumerMessages == {m \in AddendaMessages : m.message_text \in {<<"irai">>, <<"http://x">>, <<FilePlaceholder>>}}

(* process_message for an order, a file or a link of a customer *)
ConsumerMessage ==
    \E m \in ConsumerMessages :
        /\ process_message(m)
        /\ hist' = IF last'.flow \in AddendumFlows
                   THEN Append(hist, Promise(m, Len(tasks')))
                   ELSE hist
        /\ UNCHANGED procs

NextConsumer ==
    \/ ConsumerMessage
    \/ file_processor_handler

SpecConsumer == InitWorker /\ [][NextConsumer]_vars

(* the event source mapping of the queue invokes the worker for every      *)
(* record that waits in the queue (file_processor.py 19-50)                *)
ConsumerFairness == WF_vars(file_processor_handler)

SpecConsumerFair == SpecConsumer /\ ConsumerFairness

----------------------------------------------------------------------------
(* extract_deadline (parsers.py 54-91) with the calendar: the loop over    *)
(* date_patterns.  A text is a sequence of expressions: a date written     *)
(* month/day (slash) or with the month and day characters (kanji), a time  *)
(* written hour:minute (colon) or hour with the hour character (ji).       *)
Expr(kind, a, b) == [kind |-> kind, a |-> a, b |-> b]

is_leap(year) == (year % 4 = 0 /\ year % 100 # 0) \/ year % 400 = 0

days_in_month(year, month) ==
    CASE month \in {4, 6, 9, 11} -> 30
      [] month = 2 -> (IF is_leap(year) THEN 29 ELSE 28)
      [] OTHER -> 31

(* datetime(year, month, day, hour, minute) raises ValueError unless *)
valid_datetime(year, month, day, hour, minute) ==
    /\ month \in 1..12
    /\ day \in 1..days_in_month(year, month)
    /\ hour \in 0..23
    /\ minute \in 0..59

date_patterns ==
    << [date |-> "slash", time |-> "colon"], [date |-> "kanji", time |-> "colon"],
       [date |-> "slash", time |-> "ji"], [date |-> "kanji", time |-> "ji"],
       [date |-> "slash", time |-> "none"], [date |-> "kanji", time |-> "none"] >>

Least(S) == CHOOSE i \in S : \A j \in S : i <= j

(* re.search: the leftmost date of the pattern's form that is followed by a *)
(* time of the pattern's form, and the nearest such time                   *)
PatternMatch(pattern, text) ==
    LET times(i) == {j \in DOMAIN text : j > i /\ text[j].kind = pattern.time}
        dates == {i \in DOMAIN text : /\ text[i].kind = pattern.date
                                      /\ pattern.time # "none" => times(i) # {}}
    IN  IF dates = {} THEN [found |-> FALSE]
        ELSE LET i == Least(dates)
             IN  [found |-> TRUE, month |-> text[i].a, day |-> text[i].b,
                  has_hour |-> pattern.time # "none",
                  hour |-> IF pattern.time = "none" THEN 0 ELSE text[Least(times(i))].a,
                  minute |-> IF pattern.time = "colon" THEN text[Least(times(i))].b ELSE 0]

NoDate == [found |-> FALSE]


(* 64-89: the patterns from the k-th on; year is the local the loop keeps *)
RECURSIVE DatePatternsFrom(_, _, _, _)
DatePatternsFrom(k, year, now, text) ==
    IF k > Len(date_patterns) THEN NoDate
    ELSE LET match == PatternMatch(date_patterns[k], text)
         IN  IF ~match.found THEN DatePatternsFrom(k + 1, year, now, text)
             ELSE LET y == IF match.month < now.month THEN now.year + 1 ELSE year
                      late == /\ match.month = now.month
                              /\ match.day = now.day
                              /\ now.hour >= 17
                      hour == IF match.has_hour THEN match.hour
                              ELSE IF late THEN 23 ELSE 18
                      minute == IF ~match.has_hour /\ late THEN 59 ELSE match.minute
                  IN  IF valid_datetime(y, match.month, match.day, hour, minute)
                      THEN [found |-> TRUE, year |-> y, month |-> match.month,
                            day |-> match.day, hour |-> hour, minute |-> minute]
                      ELSE DatePatternsFrom(k + 1, y, now, text)

extract_deadline_at(now, text) == DatePatternsFrom(1, now.year, now, text)

(* the clocks and the texts the parser is read with *)
Nows == [year : {2024, 2025}, month : {1, 6, 12}, day : {10}, hour : {10, 18}]

DateExprs ==
    { Expr(kind, d[1], d[2]) : kind \in {"slash", "kanji"},
                               d \in {<<12, 5>>, <<6, 10>>, <<7, 1>>, <<2, 29>>, <<2, 30>>} }

TimeExprs == { Expr("colon", 17, 0), Expr("colon", 25, 0), Expr("ji", 9, 0) }

DeadlineTexts ==
    { <<d>> : d \in DateExprs }
    \cup { <<d, t>> : d \in DateExprs, t \in TimeExprs }
    \cup { <<d, e>> : d \in DateExprs, e \in DateExprs }
    \cup { <<d, e, t>> : d \in DateExprs, e \in DateExprs, t \in {Expr("colon", 17, 0)} }

(* a clock and a text are given (last.arg, last.text) *)
InitDeadline ==
    /\ TablesWith(RegisteredClients, {<<"", FALSE>>})
    /\ \E now \in Nows, text \in DeadlineTexts :
           last = [LastDefault EXCEPT !.op = "input", !.arg = now, !.text = text]

(* the text is read at the clock; out is the deadline read, if any *)
ReadDeadline ==
    LET deadline == extract_deadline_at(last.arg, last.text)
    IN  /\ last.op = "input"
        /\ last' = [last EXCEPT !.op = "extract_deadline", !.ok = deadline.found]
        /\ out' = IF deadline.found
                  THEN <<Ev("deadline", "", deadline.year,
                            <<deadline.month, deadline.day, deadline.hour,
                              deadline.minute>>, TRUE)>>
                  ELSE <<>>
        /\ UNCHANGED <<approval_group_id, ENABLE_DELAYED_RESPONSE, registrations, pending, revisions,
                       unprocessed, contacts, clients, orders, tasks, reopened, delayed,
                       procs, hist>>

NextDeadline == ReadDeadline

SpecDeadline == InitDeadline /\ [][NextDeadline]_vars

TypeOK ==
    /\ Len(pending) <= MaxPending
    /\ \A g \in CustomerGroups : Len(unprocessed[g]) <= MaxBuf

----------------------------------------------------------------------------
(* Properties.  They read the invocation handled last (last), what it      *)
(* emitted (out) and the tables after it.                                  *)

ApproveOps == {"cmd_send", "slack_approve"}
RejectOps == {"cmd_reject", "slack_reject"}

PushesOf(pending_id) == {i \in DOMAIN out : out[i].ch = "push" /\ out[i].id = pending_id}

(* what the last invocation sent or queued to the conversation it came from *)
CustomerDeliveries ==
    {i \in DOMAIN out : /\ out[i].ch \in {"reply", "push", "queue_delayed"}
                        /\ out[i].to = IF last.group_id # "" THEN last.group_id
                                       ELSE last.user_id}

(* the last invocation took the item from pending to approved *)
ApprovedNow(pending_id) ==
    /\ last.op \in ApproveOps
    /\ last.id = pending_id
    /\ last.pre = "pending"
    /\ pending_id \in DOMAIN pending
    /\ pending[pending_id].status = "approved"

C2_SecondSendNotFound ==
    /\ (last.op = "cmd_send" /\ last.pre = "approved")
       => /\ out = <<OperatorReply(last.id, <<"not_found">>)>>
          /\ pending[last.id].status = "approved"
    /\ \A pending_id \in Ids :
           Cardinality(PushesOf(pending_id)) <= IF ApprovedNow(pending_id) THEN 1 ELSE 0

C2_Witness ==
    /\ last.op = "cmd_send"
    /\ last.pre = "approved"
    /\ PushesOf(last.id) = {}
    /\ out # <<>>
    /\ out[1].text = <<"not_found">>

(* C3: unsend_message (reopen) on an item whose status is pending or       *)
(* rejected changes no status and posts no review request.                 *)
C3_ReopenRefusedUnlessApproved ==
    (last.op = "slack_unsend" /\ last.pre \in {"pending", "rejected"})
    => /\ pending[last.id].status = last.pre
       /\ \A i \in DOMAIN out : out[i].ch # "slack_request"
       /\ \A i \in DOMAIN out : out[i].text # <<"reopened">>

(* C4: reopen on an approved item returns it to pending with its draft; on *)
(* an item that has been reopened and is pending, approve pushes the       *)
(* current draft to the item's target and approves it, reject rejects it,  *)
(* revise and both edits replace its draft.                                *)
C4_ReopenedBehavesPending ==
    /\ (last.op = "slack_unsend" /\ last.pre = "approved")
       => /\ pending[last.id].status = "pending"
          /\ pending[last.id].response_text = last.user_message
    /\ (last.id \in DOMAIN pending /\ reopened[last.id] /\ last.pre = "pending")
       => LET item == pending[last.id]
          IN  CASE last.op \in ApproveOps ->
                       /\ item.status = "approved"
                       /\ PushesOf(last.id) = {1}
                       /\ out[1] = Ev("push", item.target_id, last.id, last.user_message, last.ok)
                       /\ item.response_text = last.user_message
                [] last.op \in RejectOps -> item.status = "rejected"
                [] last.op = "cmd_revise" ->
                       /\ item.status = "pending"
                       /\ item.response_text = out[1].text
                       /\ Len(revisions) = last.n_revisions + 1
                [] last.op \in {"cmd_edit", "slack_edit"} ->
                       /\ item.status = "pending"
                       /\ item.response_text = last.arg
                [] OTHER -> TRUE

C4_Witness ==
    /\ last.op = "cmd_send"
    /\ last.id \in DOMAIN pending
    /\ reopened[last.id]
    /\ last.pre = "pending"
    /\ pending[last.id].status = "approved"
    /\ PushesOf(last.id) # {}

(* C5: reject on a pending item sets it rejected and delivers nothing; on  *)
(* a rejected item approve, reject, revise and the edits leave status and  *)
(* draft as they are, write no revision and push nothing.                  *)
C5_RejectedIsTerminal ==
    /\ (last.op \in RejectOps /\ last.pre = "pending")
       => /\ pending[last.id].status = "rejected"
          /\ pending[last.id].response_text = last.user_message
          /\ \A i \in DOMAIN out : out[i].ch \notin {"push", "queue_delayed"}
    /\ ( /\ last.pre = "rejected"
         /\ last.op \in ApproveOps \cup RejectOps \cup {"cmd_revise", "cmd_edit", "slack_edit"} )
       => /\ pending[last.id].status = "rejected"
          /\ pending[last.id].response_text = last.user_message
          /\ Len(revisions) = last.n_revisions
          /\ \A i \in DOMAIN out : out[i].ch \notin {"push", "queue_delayed"}

C5_Witness ==
    /\ last.op = "cmd_edit"
    /\ last.pre = "rejected"
    /\ pending[last.id].status = "rejected"
    /\ pending[last.id].response_text # last.arg

(* C6: on a pending item the revise command leaves the id pending with the *)
(* revised draft and appends exactly one revision record (old draft,       *)
(* instruction, new draft); the edit command leaves the id pending with    *)
(* the edited text as draft and appends no record; neither adds an item.   *)
C6_ReviseThenEdit ==
    /\ (last.op = "cmd_revise" /\ last.pre = "pending")
       => /\ pending[last.id].status = "pending"
          /\ Len(pending) = last.n_pending
          /\ Len(revisions) = last.n_revisions + 1
          /\ LET record == revisions[Len(revisions)]
             IN  /\ record.pending_id = last.id
                 /\ record.original_response = last.user_message
                 /\ <<record.revision_instruction>> = last.arg
                 /\ record.revised_response = pending[last.id].response_text
    /\ (last.op = "cmd_edit" /\ last.pre = "pending")
       => /\ pending[last.id].status = "pending"
          /\ pending[last.id].response_text = last.arg
          /\ Len(pending) = last.n_pending
          /\ Len(revisions) = last.n_revisions

(* the edit command has followed the revise command on the same item *)
C6_Witness ==
    /\ last.op = "cmd_edit"
    /\ last.pre = "pending"
    /\ revisions # <<>>
    /\ revisions[Len(revisions)].pending_id = last.id
    /\ revisions[Len(revisions)].revised_response = last.user_message
    /\ pending[last.id].response_text = last.arg
    /\ last.arg # last.user_message

C8_FailedSendReported ==
    (last.op \in ApproveOps /\ last.pre = "pending" /\ ~last.ok)
    => /\ pending[last.id].status = "approved"
       /\ \E i \in DOMAIN out : out[i].text = <<"send_failed">>
       /\ \A i \in DOMAIN out : out[i].text \notin {<<"send_done">>, <<"approved">>}

(* the buffered entries and the trigger message as C9 describes them *)
IsPlainToken(t) == t \notin TRIGGER_KEYWORDS

RECURSIVE SplitLines(_)
SplitLines(text) ==
    IF text = <<>> THEN <<>>
    ELSE LET breaks == {i \in DOMAIN text : text[i] = "\n"}
         IN  IF breaks = {} THEN <<text>>
             ELSE LET first == CHOOSE i \in breaks : \A j \in breaks : i <= j
                  IN  <<SubSeq(text, 1, first - 1)>>
                      \o SplitLines(SubSeq(text, first + 1, Len(text)))

DrainedText ==
    LET lines == SplitLines(last.user_message)
        entries == last.old[last.group_id]
        cleaned == SelectSeq(last.text, IsPlainToken)
    IN  /\ Len(lines) = Len(entries) + (IF cleaned = <<>> THEN 0 ELSE 1)
        /\ \A i \in DOMAIN entries :
               lines[i] = <<entries[i].user_name \o ":">> \o entries[i].message_text
        /\ cleaned # <<>> => lines[Len(lines)] = cleaned

BufferedOnly ==
    /\ unprocessed = [last.old EXCEPT ![last.group_id] =
                         Append(@, [user_name |-> user_name(last.user_id),
                                    message_text |-> last.text])]
    /\ out = <<>>
    /\ Len(pending) = last.n_pending
    /\ Len(orders) = last.n_orders
    /\ Len(tasks) = last.n_tasks

(* C10 as stated: a group message outside the approval channel, without    *)
(* trigger keyword and outside the awaiting-reply window, is appended to   *)
(* the buffer of its group and causes no reply, order, item or task; a     *)
(* message of an individual conversation leaves every buffer as it was.    *)
C10_UntaggedIsBuffered ==
    /\ ( /\ last.op = "process_message"
         /\ last.group_id \in CustomerGroups
         /\ ~last.kw
         /\ ~last.awaiting )
       => BufferedOnly
    /\ (last.op = "process_message" /\ last.group_id = "") => unprocessed = last.old

(* C10, amended: the same for every such group message that is not the     *)
(* administrator's {company:...} command.                                  *)
C10_UntaggedIsBufferedUnlessCommand ==
    /\ ( /\ last.op = "process_message"
         /\ last.group_id \in CustomerGroups
         /\ ~last.kw
         /\ ~last.awaiting
         /\ ~(last.user_id = ADMIN_USER_ID /\ CompanyTag \in Range(last.text)) )
       => BufferedOnly
    /\ (last.op = "process_message" /\ last.group_id = "") => unprocessed = last.old

C10_Witness ==
    /\ last.op = "process_message"
    /\ last.group_id \in CustomerGroups
    /\ ~last.kw
    /\ ~last.awaiting
    /\ last.attachments = 1
    /\ Len(unprocessed[last.group_id]) = 2
    /\ unprocessed[last.group_id][2].message_text = <<FilePlaceholder>>
    /\ out = <<>>

(* C11: a message handled in reply mode (an untagged group message taken   *)
(* inside the awaiting-reply window) creates no order, whatever keywords   *)
(* or attachments it carries.                                              *)
C11_ReplyModeCreatesNoOrder ==
    (last.op = "process_message" /\ last.is_reply_mode)
        => /\ Len(orders) = last.n_orders
           /\ last.flow # "new_order"

C11_Witness ==
    /\ last.op = "process_message"
    /\ last.is_reply_mode
    /\ ~last.kw
    /\ last.awaiting
    /\ is_order_request(last.text) \/ last.attachments > 0
    /\ last.flow = "chat"
    /\ Len(orders) = last.n_orders

(* the tables an invocation may write, and what it emits *)
TablesUnchanged ==
    /\ orders' = orders
    /\ clients' = clients
    /\ unprocessed' = unprocessed
    /\ pending' = pending
    /\ revisions' = revisions
    /\ contacts' = contacts
    /\ tasks' = tasks

FromApprovalChannel(l) == l.op = "process_message" /\ l.group_id = ApprovalGroup

ClientRow(cl, group_id, user_id) == cl[IF group_id # "" THEN group_id ELSE "user_" \o user_id]

(* the row the registration dialogue reads and writes *)
DialogueRow(cl, group_id, user_id) == cl[IF group_id # "" THEN group_id ELSE user_id]

ReachedRouter(l) ==
    l.op = "process_message" /\ l.flow \notin {"buffered", "admin_company", "approval_group"}

(* C13: a message that reaches the router from a conversation without a     *)
(* registered organization is answered by the registration dialogue only:  *)
(* no order, no task and no pending item is created, and when the dialogue *)
(* starts, the prompt is the only reply and the conversation's flag is set.*)
C13_UnregisteredOnlyPrompted ==
    [][(ReachedRouter(last') /\ ClientRow(clients, last'.group_id, last'.user_id).status # "active")
          => /\ orders' = orders /\ tasks' = tasks /\ pending' = pending
             /\ last'.flow \in {"register_prompt", "registration"}
             /\ Len(out') = 1 /\ out'[1].ch = "reply"
             /\ last'.flow = "register_prompt" =>
                    /\ out'[1].text = <<"register_prompt">>
                    /\ DialogueRow(clients', last'.group_id, last'.user_id).status
                           = "pending_registration"]_vars

C13_Witness ==
    /\ last.op = "process_message"
    /\ last.flow = "register_prompt"
    /\ is_order_request(last.user_message)
    /\ DialogueRow(clients, last.group_id, last.user_id).status = "pending_registration"
    /\ orders = <<>> /\ tasks = <<>> /\ pending = <<>>

(* C14 as stated: with the flag set, the next message is the answer: an     *)
(* affirmative registers the suggested name for the conversation, "no"     *)
(* clears the suggestion and registers nothing, any other short text is    *)
(* registered as the conversation's organization name.                     *)
C14_AnswerRegisters ==
    [][(ReachedRouter(last')
        /\ DialogueRow(clients, last'.group_id, last'.user_id).status = "pending_registration")
          => LET before == DialogueRow(clients, last'.group_id, last'.user_id)
                 row == ClientRow(clients', last'.group_id, last'.user_id)
                 answer == last'.user_message
             IN  IF answer \in Affirmatives /\ before.suggested_company # <<>>
                 THEN row = ActiveClient(before.suggested_company)
                 ELSE IF answer \in Negatives
                 THEN /\ DialogueRow(clients', last'.group_id, last'.user_id)
                            = [status |-> "pending_registration", company_name |-> <<>>,
                               suggested_company |-> <<>>]
                      /\ row.status # "active"
                 ELSE (CharLen(answer) > 0 /\ CharLen(answer) <= 50)
                          => row = ActiveClient(answer)]_vars

(* a deadline correction without an order id, as the router sees it *)
CorrectionWithoutId(l) ==
    /\ ReachedRouter(l)
    /\ l.flow \notin {"registration", "register_prompt"}
    /\ is_deadline_correction(l.user_message)
    /\ extract_order_id_from_message(l.user_message) = ""

(* the orders of the conversation from the last 60 minutes, before the step *)
Candidates(l) == get_recent_orders(l.group_id, l.user_id, Within60)

AsksWhichOrder(reply, candidates) ==
    /\ Len(reply) = 1
    /\ reply[1].ch = "reply"
    /\ Head(reply[1].text) = "which_order"
    /\ \A i \in candidates : OrderIdPrefix(i) \in Range(reply[1].text)

NormalFlows == {"addendum_attachment", "addendum_url", "new_order", "chat"}

(* C15 as stated: with two or more orders of the last 60 minutes, a         *)
(* deadline correction without an order id is answered by the question     *)
(* which order is meant, listing the id prefix of each, and no order is    *)
(* changed or created.                                                     *)
C15_AmbiguousCorrectionAsks ==
    [][(CorrectionWithoutId(last') /\ Cardinality(Candidates(last')) >= 2)
          => (orders' = orders /\ AsksWhichOrder(out', Candidates(last')))]_vars

(* C15, amended: the same for a correction whose date can be read as a      *)
(* calendar date.                                                          *)
C15_AmbiguousReadableCorrectionAsks ==
    [][(/\ CorrectionWithoutId(last')
        /\ extract_deadline(last'.user_message) # NoDeadline
        /\ Cardinality(Candidates(last')) >= 2)
          => (orders' = orders /\ AsksWhichOrder(out', Candidates(last')))]_vars

C15_Witness ==
    /\ last.op = "process_message"
    /\ last.flow = "deadline_ambiguous"
    /\ Len(orders) >= 2
    /\ Len(orders) = last.n_orders
    /\ \A i \in DOMAIN orders : orders[i].deadline = NoDeadline
    /\ AsksWhichOrder(out, {1, 2})

(* C16 as stated: a deadline correction without an order id updates the     *)
(* deadline of the one order of the last 60 minutes and creates no order,  *)
(* whatever order keywords it contains; without such an order it is        *)
(* classified as any other message.                                        *)
C16_SingleCandidateUpdated ==
    [][CorrectionWithoutId(last') =>
          /\ Cardinality(Candidates(last')) = 1 =>
                 /\ last'.flow = "deadline_update"
                 /\ \E i \in Candidates(last') :
                        orders' = update_order_deadline(i, extract_deadline(last'.user_message))
          /\ Candidates(last') = {} => last'.flow \in NormalFlows]_vars

(* C16, amended: the update needs a date that can be read as a calendar     *)
(* date; a correction whose date cannot be read is classified as any other *)
(* message, however many orders there are.                                 *)
C16_SingleCandidateUpdatedIfReadable ==
    [][CorrectionWithoutId(last') =>
          IF extract_deadline(last'.user_message) = NoDeadline \/ Candidates(last') = {}
          THEN last'.flow \in NormalFlows
          ELSE Cardinality(Candidates(last')) = 1 =>
                 /\ last'.flow = "deadline_update"
                 /\ \E i \in Candidates(last') :
                        orders' = update_order_deadline(i, extract_deadline(last'.user_message))]_vars

C16_Witness ==
    /\ last.op = "process_message"
    /\ last.flow = "deadline_update"
    /\ is_order_request(last.user_message)
    /\ extract_order_id_from_message(last.user_message) = ""
    /\ Len(orders) = last.n_orders
    /\ orders[last.id].deadline = "12-04 18:00"

(* a message that is only a file or only links, as the router sees it *)
FileOrLinkOnly(l) ==
    /\ ReachedRouter(l)
    /\ l.flow \notin {"registration", "register_prompt"}
    /\ ~is_order_request(l.user_message)
    /\ \/ l.attachments > 0 /\ CharLen(l.user_message) <= 20
       \/ extract_urls(l.user_message) # <<>> /\ CharLen(RemoveUrls(l.user_message)) <= 20

(* the orders of the conversation from the last 30 minutes, before the step *)
Eligible(l) == OrdersOf(l.group_id, l.user_id, Within30)

(* C17 as stated: a file-only or link-only message that finds an order of   *)
(* the last 30 minutes enqueues one task keyed by the id and the creation  *)
(* time of the latest such order, appends one note to that order and       *)
(* creates no order.                                                       *)
C17_AddendumGoesToLatestOrder ==
    [][(FileOrLinkOnly(last') /\ Eligible(last') # {})
          => LET r == CHOOSE i \in Eligible(last') :
                          \A j \in Eligible(last') : orders[j].created_at <= orders[i].created_at
             IN  /\ Len(tasks') = Len(tasks) + 1
                 /\ tasks'[Len(tasks')].order_id = r
                 /\ tasks'[Len(tasks')].order_created_at = orders[r].created_at
                 /\ orders' = add_attachment_to_order(r)]_vars

(* the completion notices among the messages of the last invocation that   *)
(* went to a customer                                                      *)
NoticesToCustomer ==
    {i \in DOMAIN out : /\ out[i].ch = "push"
                        /\ out[i].to # approval_group_id
                        /\ out[i].text # <<>>
                        /\ Head(out[i].text) = "files_saved"}

NoticeSubmitted ==
    /\ last.via = "pending"
    /\ Len(pending) = last.n_pending + 1
    /\ last.id = Len(pending)
    /\ pending[last.id].status = "pending"
    /\ Head(pending[last.id].response_text) = "files_saved"
    /\ pending[last.id].target_id = (IF last.group_id # "" THEN last.group_id ELSE last.user_id)

(* C18 as stated: the worker never pushes its completion notice to the      *)
(* customer; it stores the notice as an item of status pending, and the    *)
(* notice reaches the customer only by the invocation that approves it.    *)
C18_NoticeHeldForApproval ==
    /\ (last.op = "file_task" /\ last.via # "none") => NoticeSubmitted
    /\ NoticesToCustomer # {} => (last.op \in ApproveOps /\ ApprovedNow(last.id))

(* C18, amended: so it is while the approval pipeline is enabled; with the  *)
(* pipeline disabled the worker pushes the notice to the customer itself   *)
(* and stores no item.                                                     *)
C18_NoticeHeldForApprovalWhenEnabled ==
    IF is_approval_enabled
    THEN /\ (last.op = "file_task" /\ last.via # "none") => NoticeSubmitted
         /\ NoticesToCustomer # {} => (last.op \in ApproveOps /\ ApprovedNow(last.id))
    ELSE (last.op = "file_task" /\ last.via # "none")
            => /\ last.via = "direct"
               /\ pending = <<>>
               /\ Cardinality(NoticesToCustomer) = 1

C18_Witness ==
    /\ is_approval_enabled
    /\ last.op = "file_task"
    /\ NoticeSubmitted
    /\ NoticesToCustomer = {}

(* C19 as stated: a delivery of a task for which an earlier delivery has    *)
(* composed a completion notice puts no further notice before the customer.*)
C19_DuplicateDeliveryNotVisible ==
    [][last'.op = "file_task" =>
          \A t \in DOMAIN tasks :
              (tasks'[t].delivered > tasks[t].delivered /\ tasks[t].noticed)
                  => NoticesToCustomer' = {}]_vars

(* the files the last invocation stored in the folder *)
StoredFiles == {out[i].text[1] : i \in {j \in DOMAIN out : out[j].ch = "upload"}}

(* C20: while a task is consumed, an item whose download or upload fails is *)
(* skipped and every other item of the task is still downloaded and stored.*)
C20_FailedItemSkipped ==
    (last.op = "file_task" /\ last.ok)
        => StoredFiles = {last.text[i] : i \in {j \in DOMAIN last.text : last.arg[j] = "ok"}}

C20_Witness ==
    /\ last.op = "file_task"
    /\ last.ok
    /\ Len(last.text) = 2
    /\ last.arg[1] # "ok"
    /\ last.arg[2] = "ok"
    /\ StoredFiles = {last.text[2]}

(* the last invocation drafted a reply and handed it to send_response *)
Drafted ==
    /\ last.op = "process_message"
    /\ last.flow \in {"new_order", "chat", "addendum_attachment", "addendum_url"}

BothConfigured == is_approval_enabled /\ ENABLE_DELAYED_RESPONSE

NothingDelayed ==
    /\ \A id \in MessageIds : delayed[id] = NoDelayed
    /\ \A i \in DOMAIN out : out[i].ch # "queue_delayed"

C26_YearInferred ==
    (last.op = "extract_deadline" /\ last.ok)
    => /\ out[1].id = IF out[1].text[1] < last.arg.month THEN last.arg.year + 1
                      ELSE last.arg.year
       /\ (last.text = <<Expr("slash", 12, 5), Expr("colon", 17, 0)>> /\ last.arg.year = 2025)
          => (out[1].id = 2025 /\ out[1].text = <<12, 5, 17, 0>>)

(* C25: a complete operator command whose id names no pending item or no   *)
(* registration record, and a deadline correction whose order-id prefix    *)
(* names no order of the conversation within 24 hours, are answered with   *)
(* the not-found reply alone, and no pending item, order or client row     *)
(* changes.                                                                *)
UnknownPendingId ==
    /\ last'.op \in {"cmd_send", "cmd_reject", "cmd_revise", "cmd_edit"}
    /\ ~get_pending_message(last'.id)

UnknownRegistrationId ==
    /\ last'.op = "cmd_cancel_registration"
    /\ registrations[last'.arg[1]].status = "none"

UnknownOrderIdPrefix ==
    /\ last'.op = "process_message"
    /\ last'.group_id = ""
    /\ is_deadline_correction(last'.text)
    /\ extract_deadline(last'.text) # NoDeadline
    /\ extract_order_id_from_message(last'.text) # ""
    /\ ~\E i \in get_recent_orders(last'.group_id, last'.user_id, Within1440) :
            OrderIdPrefix(i) = extract_order_id_from_message(last'.text)

DelayedPushes(message_id) ==
    {i \in DOMAIN hist : hist[i].ch = "push" /\ hist[i].id = message_id /\ hist[i].ok}

(* the reply to the message was queued, retracted, and no delivery of it   *)
(* is under way                                                            *)
CancelledBeforeFiring(message_id) ==
    /\ delayed[message_id].queued
    /\ delayed[message_id].status = "cancelled"
    /\ InFlight(message_id) = {}

(* C21: once the reply queued for a message has been cancelled and no      *)
(* delivery of it is under way, a delivery that fires reads the status,    *)
(* pushes nothing and the row stays cancelled.                             *)
C21_CancelledNotDelivered ==
    [][ \A message_id \in MessageIds :
            CancelledBeforeFiring(message_id)
            => /\ CancelledBeforeFiring(message_id)'
               /\ DelayedPushes(message_id)' = DelayedPushes(message_id)
               /\ \A i \in DOMAIN out' : out'[i].id # message_id \/ out'[i].ch # "push" ]_vars

(* a delivery fired for a cancelled reply that was never pushed, and ended *)
(* without a push                                                          *)
C21_Witness ==
    /\ last.op = "deliver_read"
    /\ last.pre = "cancelled"
    /\ ~last.ok
    /\ CancelledBeforeFiring(last.id)
    /\ DelayedPushes(last.id) = {}

(* C22: the reply queued for a message is pushed at most once, and after   *)
(* a delivery has marked the row its status is sent.                       *)
C22_DeliveredAtMostOnce ==
    /\ \A message_id \in MessageIds : Cardinality(DelayedPushes(message_id)) <= 1
    /\ last.op = "deliver_mark" => delayed[last.id].status = "sent"

C24_BatchCompleted ==
    \A slot \in Slots :
        (procs[slot].op = "webhook" /\ procs[slot].pc = "returned")
        => procs[slot].snap = <<>>

(* the pushes of an item's draft that reached the customer so far *)
DraftPushes(pending_id) ==
    {i \in DOMAIN hist : hist[i].ch = "push" /\ hist[i].id = pending_id /\ hist[i].ok}

(* C28: whatever the interleaving of the approvals of an item, its draft   *)
(* is pushed to the customer at most once.                                 *)
C28_ApprovedPushedOnce ==
    \A pending_id \in Ids : Cardinality(DraftPushes(pending_id)) <= 1

(* C29: what a drain deletes from the buffer is what it read and replays:  *)
(* no message is deleted without being replayed, none stays or is replayed *)
(* by a second drain.                                                      *)
C29_DrainedAsRead ==
    last.op = "drain_delete" => last.old[last.group_id] = last.arg

(* C30: an addendum adds its note to the notes the order holds, whatever   *)
(* other message is handled at the same time, and creates no order.        *)
C30_BothNotesKept ==
    [][ last'.op = "addendum_write"
        => /\ orders'[last'.id].notes = orders[last'.id].notes + 1
           /\ Len(orders') = Len(orders) ]_vars

----------------------------------------------------------------------------
(* C31 *)
ClassifierReply == procs[1].snap[1]

ClassifierWasAsked == last.op = "process_message" /\ procs[1].op = "is_message_for_ai"

BufferedLast ==
    /\ last.flow = "buffered"
    /\ out = <<>>
    /\ unprocessed[last.group_id] =
           Append(last.old[last.group_id],
                  [user_name |-> user_name(last.user_id), message_text |-> last.text])

ProcessedInReplyMode ==
    /\ last.flow # "buffered"
    /\ last.is_reply_mode
    /\ out # <<>>
    /\ unprocessed[last.group_id] = last.old[last.group_id]

----------------------------------------------------------------------------
(* C32: an untagged group message is treated as inside the awaiting-reply  *)
(* window only if a reply of the assistant was addressed to the sender of  *)
(* that message before; a reply addressed to another member of the group   *)
(* does not open the window for this sender.                               *)
C32_WindowOnlyForAddressee ==
    [][(/\ last'.op = "process_message"
        /\ last'.group_id # ""
        /\ ~last'.kw
        /\ last'.awaiting) => RepliedTo(last'.user_id)]_vars

----------------------------------------------------------------------------
(* an AI rewrite under an operator instruction: the command, or the edit    *)
(* action of the review channel with an instruction filled in              *)
RewriteStep ==
    /\ last'.op \in {"cmd_revise", "slack_edit"}
    /\ last'.id \in DOMAIN pending
    /\ pending[last'.id].status = "pending"
    /\ last'.arg # <<>>
    /\ last'.op = "cmd_revise" => last'.arg[1] \in Instructions
    /\ last'.op = "slack_edit" => last'.arg[1] \in RevisionOutputs

(* C33: every AI rewrite of a pending draft under an operator instruction,  *)
(* by the command or by the review channel's edit action, overwrites the   *)
(* draft under the same id, leaves its status pending and appends exactly  *)
(* one revision-history entry with the original text, the instruction and  *)
(* the revised text.                                                       *)
C33_RewriteRecorded ==
    [][RewriteStep =>
          /\ Len(pending') = Len(pending)
          /\ pending'[last'.id].status = "pending"
          /\ \E ai_text \in RevisionOutputs, instruction \in Instructions :
                 /\ pending'[last'.id].response_text = <<ai_text>>
                 /\ last'.op = "cmd_revise" => instruction = last'.arg[1]
                 /\ revisions' = Append(revisions,
                                        save_revision(last'.id, pending[last'.id].response_text,
                                                      instruction, <<ai_text>>))]_vars

----------------------------------------------------------------------------
(* the tasks the invocation handled last has put on the queue *)
QueuedByLast == {t \in DOMAIN tasks : t > last.n_tasks}

TaskFor(task_type, order_id, items) ==
    \E t \in QueuedByLast :
        /\ tasks[t].task_type = task_type
        /\ tasks[t].order_id = order_id
        /\ tasks[t].order_created_at = orders[order_id].created_at
        /\ tasks[t].items = items

(* C34: the new-order flow creates exactly one order and puts an attachment *)
(* task on the queue whenever the message has attachments and a url task   *)
(* whenever it contains links, each with the id and the creation time of   *)
(* the new order; no attachment or link of a new order is left without a   *)
(* task.                                                                   *)
C34_NewOrderTasksQueued ==
    last.op = "process_message" /\ last.flow = "new_order" =>
        /\ Len(orders) = last.n_orders + 1
        /\ last.attachments > 0 => TaskFor("process_attachments", Len(orders), <<"file">>)
        /\ extract_urls(last.user_message) # <<>> =>
               TaskFor("process_urls", Len(orders), extract_urls(last.user_message))

----------------------------------------------------------------------------
(* the consumption of task t in this step *)
Consumed(t) == t \in DOMAIN tasks /\ tasks'[t].delivered = tasks[t].delivered + 1

(* C35: when a consumed task of either kind carries no storage folder, the  *)
(* consumer resolves or creates the folder, records it on the order and    *)
(* goes on to download and upload the task's items.                        *)
C35_FolderResolvedWhenMissing ==
    [][\A t \in DOMAIN tasks :
          Consumed(t) /\ ~tasks[t].folder =>
              /\ orders'[tasks[t].order_id].folder
              /\ last'.ok]_vars

----------------------------------------------------------------------------
(* the completion notice the last invocation of the worker composed: the    *)
(* stored item when the pipeline is enabled, the message pushed otherwise  *)
NoticeOfLast ==
    IF last.via = "pending" THEN pending[last.id].response_text ELSE out[Len(out)].text

(* the file list of the notice; its length is the count N of the notice    *)
(* and of the order note                                                   *)
ListedInNotice == Tail(NoticeOfLast)

(* C36: the count N of the "N files saved" note and the file list of the    *)
(* completion notice contain exactly the items of the task whose download  *)
(* and upload both succeeded; an item whose upload failed is neither       *)
(* counted nor listed.                                                     *)
C36_NoticeListsStoredFiles ==
    (last.op = "file_task" /\ last.via # "none") =>
        /\ Range(ListedInNotice) = StoredFiles
        /\ Len(ListedInNotice) = Cardinality(StoredFiles)

----------------------------------------------------------------------------
(* C37: once the retraction of a message has been handled, no push of the   *)
(* reply to that message happens afterwards, however the retraction        *)
(* interleaves with the queueing of the reply and with the status check    *)
(* and the send of a delivery.  Checked for the step that follows the      *)
(* retraction.                                                             *)
C37_NoPushAfterCancel ==
    [][last.op = "unsend" =>
          \A i \in DOMAIN out' :
              ~(out'[i].ch = "push" /\ out'[i].id = last.id /\ out'[i].ok)]_vars

----------------------------------------------------------------------------
(* C38: in every reachable state an item whose stored status is rejected   *)
(* has never been pushed to the customer, also when an approval and a      *)
(* rejection of the same id are handled by interleaved invocations.        *)
C38_RejectedNeverPushed ==
    \A pending_id \in DOMAIN pending :
        pending[pending_id].status = "rejected" => DraftPushes(pending_id) = {}

----------------------------------------------------------------------------
EditOps == {"cmd_edit", "cmd_revise", "slack_edit"}

(* the review requests among the messages of the last invocation: the      *)
(* request posted to the review channel, or the command's answer that      *)
(* shows the new draft                                                     *)
ReviewRequests ==
    {i \in DOMAIN out :
        \/ out[i].ch = "slack_request"
        \/ out[i].ch = "reply" /\ out[i].text \notin {<<"not_found">>, <<"usage">>}}

(* C39: whenever a review request for an id is posted again after an edit   *)
(* (the edit command, the rewrite command or the review channel's edit     *)
(* action), the draft it shows is the draft stored for that id, the text   *)
(* an approval would send; an edit of an item that is no longer pending    *)
(* posts no request with a text that was not stored.                       *)
C39_ReviewShowsStoredDraft ==
    last.op \in EditOps =>
        \A i \in ReviewRequests :
            /\ out[i].id \in DOMAIN pending
            /\ out[i].text = pending[out[i].id].response_text

----------------------------------------------------------------------------
(* the customer was told that a notice will follow for task t *)
Promised(t) ==
    \E i \in DOMAIN hist :
        /\ hist[i].text = <<"notice_will_follow">>
        /\ hist[i].id = t

(* the worker has consumed task t at least once *)
ConsumedOnce(t) == t \in DOMAIN tasks /\ tasks[t].delivered > 0

(* a completion notice was submitted for task t *)
Noticed(t) == t \in DOMAIN tasks /\ tasks[t].noticed

(* C40: every addendum for which the customer was told that a notice will   *)
(* follow leads, once its task has been consumed, to a completion notice   *)
(* for that conversation, also when the order has no storage folder or     *)
(* when items fail to download.                                            *)
C40_PromisedNoticeFollows ==
    \A t \in 1..MaxTasks :
        (Promised(t) /\ ConsumedOnce(t)) ~> Noticed(t)

====
